---------------------------- MODULE Spec2Model ----------------------------
(***************************************************************************)
(* A model of the TOI 864.01 validation scripts.  Each behaviour is one    *)
(* run of one script: `script' says which, `pc' is the position in the     *)
(* script, `out' is what has been printed and `ran' is the sequence of     *)
(* stages that have been started, in order.                                *)
(*                                                                         *)
(* Floating-point values are modelled as fixed-point numbers with the      *)
(* IEEE special values kept apart: a value is a record [k, v] with k one   *)
(* of "fin", "nan", "pinf", "ninf".  Units are stated at each definition.  *)
(***************************************************************************)
EXTENDS Integers, Sequences, FiniteSets, TLC

VARIABLES script, pc, out, ran, raised,
          search, lc_collection, best_period, lc_folded,
          depth_ppm, noise_ppm, n_points, snr_final,
          catalog_data, star_radius, star_mass, star_temp,
          planet_radius_earth, a_au, planet_temp_kelvin, planet_temp_celsius,
          lc, orbit_num, mask_even, mask_odd, bin_even, bin_odd,
          depth_even, depth_odd, sigma_even, sigma_odd, diff_sigma, ratio,
          sector_idx, lc_list,
          folders, lnZ_P, lnZ_EB, delta,
          density_in,
          rt_radius, rt_earth, rt_back, rt_back_spec,
          heap, priors, priors_EB, priors_fitted

detectVars == <<search, lc_collection, best_period, lc_folded, depth_ppm, noise_ppm, n_points, snr_final>>

planetVars == <<catalog_data, star_radius, star_mass, star_temp, planet_radius_earth, a_au,
                planet_temp_kelvin, planet_temp_celsius>>

\* 05_sanity_checks.py uses `search' too
sanityVars == <<lc, orbit_num, mask_even, mask_odd, bin_even, bin_odd,
                depth_even, depth_odd, sigma_even, sigma_odd, diff_sigma, ratio>>

csvVars == <<sector_idx, lc_list>>

\* 04_juliet_model_comparison.py uses `search' too
\* the prior dictionaries of 04_juliet_model_comparison.py
priorVars == <<heap, priors, priors_EB, priors_fitted>>

julietVars == <<folders, lnZ_P, lnZ_EB, delta, priorVars>>

\* the constants of the stellar density check, as parameters
densityVars == <<density_in>>

\* a radius in solar radii, in Earth radii, and converted back
roundTripVars == <<rt_radius, rt_earth, rt_back, rt_back_spec>>

\* `search' apart, the variables of 01_detection_BLS.py
detectOwn == <<lc_collection, best_period, lc_folded, depth_ppm, noise_ppm, n_points, snr_final>>

\* what the actions of each script leave unchanged
detectOthers == <<planetVars, sanityVars, csvVars, julietVars, densityVars, roundTripVars>>
planetOthers == <<detectVars, sanityVars, csvVars, julietVars, densityVars, roundTripVars>>
sanityOthers == <<planetVars, csvVars, julietVars, densityVars, roundTripVars>>
csvOthers == <<detectVars, planetVars, sanityVars, julietVars, densityVars, roundTripVars>>
julietOthers == <<detectOwn, planetVars, sanityVars, csvVars, densityVars, roundTripVars>>
centroidOthers == <<detectVars, planetVars, sanityVars, csvVars, julietVars, densityVars, roundTripVars>>
superOthers == <<detectOwn, planetVars, sanityVars, csvVars, julietVars, densityVars, roundTripVars>>

vars == <<script, pc, out, ran, raised, detectVars, planetVars, sanityVars, csvVars, julietVars,
          densityVars, roundTripVars>>

---------------------------------------------------------------------------
(* Bounds of the model. *)

\* largest number of samples of a folded light curve
MaxFolded == 3

\* largest number of results of a light-curve search
MaxSearch == 1

\* largest number of samples of a stitched light curve
MaxSamples == 2

\* largest number of bins of a folded, binned light curve
MaxBins == 3

\* number of sectors of SECTORS_LIST the retrieval loop is run over
NumSectors == 2

---------------------------------------------------------------------------
(* Floating-point values. *)

Fin(x) == [k |-> "fin", v |-> x]
NaN == [k |-> "nan", v |-> 0]
PInf == [k |-> "pinf", v |-> 0]
NInf == [k |-> "ninf", v |-> 0]

IsNaN(x) == x.k = "nan"
IsFin(x) == x.k = "fin"

Abs(x) == IF x < 0 THEN -x ELSE x

\* a > b on floats: every comparison with NaN is false
FGt(a, b) ==
    CASE IsNaN(a) \/ IsNaN(b) -> FALSE
      [] a.k = "pinf" -> b.k # "pinf"
      [] a.k = "ninf" -> FALSE
      [] b.k = "pinf" -> FALSE
      [] b.k = "ninf" -> TRUE
      [] OTHER -> a.v > b.v

FLt(a, b) == FGt(b, a)

\* a - b on floats
FSub(a, b) ==
    CASE IsNaN(a) \/ IsNaN(b) -> NaN
      [] IsFin(a) /\ IsFin(b) -> Fin(a.v - b.v)
      [] IsFin(a) -> IF b.k = "pinf" THEN NInf ELSE PInf
      [] IsFin(b) -> a
      [] OTHER -> IF a.k = b.k THEN NaN ELSE a

RECURSIVE Bisect(_, _, _, _)
\* the largest r in lo..hi with Pow(r) <= n, for e = 2 (square) or 3 (cube)
Bisect(lo, hi, n, e) ==
    IF lo >= hi THEN lo
    ELSE LET mid == (lo + hi + 1) \div 2
             p == IF e = 2 THEN mid * mid ELSE mid * mid * mid
         IN IF p <= n THEN Bisect(mid, hi, n, e) ELSE Bisect(lo, mid - 1, n, e)

\* floor of the square root of n >= 0
ISqrt(n) == Bisect(0, 46340, n, 2)

\* floor of the cube root of n >= 0
ICbrt(n) == Bisect(0, 1290, n, 3)

---------------------------------------------------------------------------
(* Sequences of numbers. *)

RECURSIVE SumSeq(_)
SumSeq(s) == IF s = <<>> THEN 0 ELSE Head(s) + SumSeq(Tail(s))

RECURSIVE SortedSeq(_)
\* the elements of a finite set of integers in increasing order
SortedSeq(S) ==
    IF S = {} THEN <<>>
    ELSE LET m == CHOOSE x \in S : \A y \in S : x <= y
         IN <<m>> \o SortedSeq(S \ {m})

RECURSIVE InsertSorted(_, _)
InsertSorted(x, s) ==
    IF s = <<>> THEN <<x>>
    ELSE IF x <= Head(s) THEN <<x>> \o s
    ELSE <<Head(s)>> \o InsertSorted(x, Tail(s))

RECURSIVE SortInts(_)
\* a sequence of integers sorted increasingly, repetitions kept
SortInts(s) == IF s = <<>> THEN <<>> ELSE InsertSorted(Head(s), SortInts(Tail(s)))

\* the elements of s at the positions where mask is TRUE (numpy boolean indexing
\* with a mask as long as s)
Select(s, mask) ==
    LET RECURSIVE Sel(_)
        Sel(i) == IF i > Len(s) THEN <<>>
                  ELSE (IF mask[i] THEN <<s[i]>> ELSE <<>>) \o Sel(i + 1)
    IN Sel(1)

\* numpy median / nanmedian of a sequence of finite values, in the unit of the
\* values: NaN for an empty sequence, the mean of the two middle values for an
\* even count (the model's flux values are even, so the mean is exact)
Median(s) ==
    IF s = <<>> THEN NaN
    ELSE LET t == SortInts(s)
             n == Len(t)
         IN IF n % 2 = 1 THEN Fin(t[(n + 1) \div 2])
            ELSE Fin((t[n \div 2] + t[n \div 2 + 1]) \div 2)

\* n^3 times the population variance of s: sum of (n*x - sum(s))^2
VarNum(s) ==
    LET n == Len(s)
        S == SumSeq(s)
    IN SumSeq([i \in 1..n |-> (n * s[i] - S) * (n * s[i] - S)])

---------------------------------------------------------------------------
(* Printed output and the log of stages. *)

Line(tag, val) == [tag |-> tag, val |-> val]
Text(tag) == Line(tag, NaN)

Printed(tag) == \E i \in 1..Len(out) : out[i].tag = tag

\* the common part of every step: the stage is logged as started (sector 0: the
\* stage belongs to no sector) and as not having raised
Stage(name) == ran' = Append(ran, [stage |-> name, sector |-> 0, raised |-> FALSE])

\* the stage is logged as started and as having raised an exception
Raise(name) == ran' = Append(ran, [stage |-> name, sector |-> 0, raised |-> TRUE])

---------------------------------------------------------------------------
(* 01_detection_BLS.py: BLS detection, depth / noise / SNR and the report.  *)
(* Phases are in thousandths of a day, periods in thousandths of a day,     *)
(* flux in units of 1e-5, depth_ppm and noise_ppm in tenths of a ppm,       *)
(* snr_final in tenths.                                                     *)

\* DURATION_HOURS_HINT = 1.0, in hours
DURATION_HOURS_HINT == 1

\* the SNR threshold 7.1, in tenths
SNR_ROBUST == 71

\* the depth threshold of the advisory note, 500 ppm, in tenths of a ppm
DEPTH_NOTE == 5000

\* tenths of a ppm per unit of flux (1e-5 * 1e6 * 10)
TenthPpmPerFlux == 100

\* the period grid of the BLS search, PERIOD_HINT -+ 0.01 (thousandths of a day)
PeriodGrid == {513, 523, 533}

\* phases a fold can return (thousandths of a day), all within half a period
FoldedPhases == {-200, -30, 0, 100, 200}

\* flux values of a flattened light curve (units of 1e-5, around 1.0)
FluxVals == {99939, 99980, 100000, 100002, 100020}

\* the folded light curves of at most MaxFolded samples: phase-sorted sequences
\* of [phase, flux]
FoldedCurves ==
    UNION { { [i \in 1..Cardinality(P) |-> [phase |-> SortedSeq(P)[i], flux |-> f[SortedSeq(P)[i]]]]
              : f \in [P -> FluxVals] }
            : P \in { Q \in SUBSET FoldedPhases : Cardinality(Q) <= MaxFolded } }

\* duration_phase = (DURATION_HOURS_HINT / 24) / best_period, in millionths
DurationPhase(period) == (((DURATION_HOURS_HINT * 1000000) \div 24) * 1000) \div period

\* mask_transit: |phase| < duration_phase * 0.5 (both sides in millionths, doubled)
MaskTransit(ph, period) == 2 * (Abs(ph) * 1000) < DurationPhase(period)

\* an out-of-transit window that starts at a quarter of the duration
C8_OutFromQuarter(ph, period) == 4 * (Abs(ph) * 1000) > DurationPhase(period)

\* mask_out: |phase| > duration_phase * 2.0 (both sides in millionths)
MaskOut(ph, period) == Abs(ph) * 1000 > 2 * DurationPhase(period)

FluxOf(lcv) == [i \in 1..Len(lcv) |-> lcv[i].flux]

FluxIn(lcv, period) ==
    Select(FluxOf(lcv), [i \in 1..Len(lcv) |-> MaskTransit(lcv[i].phase, period)])

FluxOut(lcv, period) ==
    Select(FluxOf(lcv), [i \in 1..Len(lcv) |-> MaskOut(lcv[i].phase, period)])

\* a float times a positive integer
FScale(a, n) == IF IsFin(a) THEN Fin(a.v * n) ELSE a

\* numpy std / nanstd (population standard deviation) of finite values, in
\* hundredths of the unit of the values; NaN for an empty sequence
Std(s) ==
    IF s = <<>> THEN NaN
    ELSE LET n == Len(s)
         IN Fin(ISqrt(((VarNum(s) * 100) \div (n * n * n)) * 100))

\* a / b on floats with the quotient in 1/scale (numpy: x/0 is +-inf, 0/0 is NaN)
FDiv(a, b, scale) ==
    CASE IsNaN(a) \/ IsNaN(b) -> NaN
      [] IsFin(a) /\ IsFin(b) ->
            IF b.v = 0
            THEN (IF a.v = 0 THEN NaN ELSE IF a.v > 0 THEN PInf ELSE NInf)
            ELSE LET q == (Abs(a.v) * scale) \div Abs(b.v)
                 IN Fin(IF (a.v < 0) = (b.v < 0) THEN q ELSE -q)
      [] IsFin(a) -> Fin(0)
      [] IsFin(b) -> IF (a.k = "pinf") = (b.v >= 0) THEN PInf ELSE NInf
      [] OTHER -> NaN

\* a * sqrt(n) for an integer n >= 0, a in 1/1000, the product in 1/10
FMulSqrt(a, n) ==
    CASE IsNaN(a) -> NaN
      [] IsFin(a) ->
            LET p == (Abs(a.v) * ISqrt(n * 10000)) \div 10000
            IN Fin(IF a.v < 0 THEN -p ELSE p)
      [] OTHER -> IF n = 0 THEN NaN ELSE a

\* depth_ppm = (nanmedian(flux_out) - nanmedian(flux_in)) * 1e6
DepthPpm(flux_in, flux_out) == FScale(FSub(Median(flux_out), Median(flux_in)), TenthPpmPerFlux)

\* noise_ppm = nanstd(flux_out) * 1e6
NoisePpm(flux_out) == Std(flux_out)

\* an SNR computed from the size of the depth, whatever its sign
C22_SnrOfAbsDepth(depth, noise, n) ==
    FMulSqrt(FDiv(IF IsFin(depth) THEN Fin(Abs(depth.v)) ELSE depth, noise, 1000), n)

\* snr_final = (depth_ppm / noise_ppm) * sqrt(n_points)
SnrFinal(depth, noise, n) == FMulSqrt(FDiv(depth, noise, 1000), n)

\* the except branch of the try block: print the error and exit()
DetectFail(stage) ==
    /\ Raise(stage)
    /\ raised' = stage
    /\ out' = Append(out, Text("CRITICAL ERROR"))
    /\ pc' = "exited"

\* a SPOC query that is followed by the TESS-SPOC query whatever it returned
C18_SearchSPOCThenTessSPOC ==
    /\ script = "detect" /\ pc = "start"
    /\ \/ DetectFail("search_SPOC") /\ UNCHANGED <<search, lc_collection>>
       \/ \E n \in 0..MaxSearch :
             /\ Stage("search_SPOC")
             /\ search' = n
             /\ pc' = "search_TESS_SPOC"
             /\ UNCHANGED <<out, raised, lc_collection>>
    /\ UNCHANGED <<script, best_period, lc_folded, depth_ppm, noise_ppm, n_points, snr_final, detectOthers>>

\* search = lk.search_lightcurve(TIC_ID, author="SPOC", exptime=120)
DetectSearchSPOC ==
    /\ script = "detect" /\ pc = "start"
    /\ \/ DetectFail("search_SPOC") /\ UNCHANGED <<search, lc_collection>>
       \/ \E n \in 0..MaxSearch :
             /\ Stage("search_SPOC")
             /\ search' = n
             /\ pc' = IF n = 0 THEN "search_TESS_SPOC" ELSE "download"
             /\ UNCHANGED <<out, raised, lc_collection>>
    /\ UNCHANGED <<script, best_period, lc_folded, depth_ppm, noise_ppm, n_points, snr_final, detectOthers>>

\* if len(search) == 0: search = lk.search_lightcurve(TIC_ID, author="TESS-SPOC")
DetectSearchTessSPOC ==
    /\ script = "detect" /\ pc = "search_TESS_SPOC"
    /\ \/ DetectFail("search_TESS_SPOC") /\ UNCHANGED <<search, lc_collection>>
       \/ \E n \in 0..MaxSearch :
             /\ Stage("search_TESS_SPOC")
             /\ search' = n
             /\ pc' = IF n = 0 THEN "search_QLP" ELSE "download"
             /\ UNCHANGED <<out, raised, lc_collection>>
    /\ UNCHANGED <<script, best_period, lc_folded, depth_ppm, noise_ppm, n_points, snr_final, detectOthers>>

\* if len(search) == 0: print(...); search = lk.search_lightcurve(TIC_ID, author="QLP")
DetectSearchQLP ==
    /\ script = "detect" /\ pc = "search_QLP"
    /\ \/ /\ Raise("search_QLP")
          /\ raised' = "search_QLP"
          /\ out' = out \o <<Text("High cadence data not found"), Text("CRITICAL ERROR")>>
          /\ pc' = "exited"
          /\ UNCHANGED <<search, lc_collection>>
       \/ \E n \in 0..MaxSearch :
             /\ Stage("search_QLP")
             /\ search' = n
             /\ out' = Append(out, Text("High cadence data not found"))
             /\ pc' = "download"
             /\ UNCHANGED <<raised, lc_collection>>
    /\ UNCHANGED <<script, best_period, lc_folded, depth_ppm, noise_ppm, n_points, snr_final, detectOthers>>

\* print(Sectors found); lc_collection = search.download_all()
\* (download_all of an empty search result returns None)
DetectDownload ==
    /\ script = "detect" /\ pc = "download"
    /\ \/ /\ Raise("download_all")
          /\ raised' = "download_all"
          /\ out' = out \o <<Line("Sectors found", Fin(search)), Text("CRITICAL ERROR")>>
          /\ pc' = "exited"
          /\ UNCHANGED lc_collection
       \/ /\ Stage("download_all")
          /\ lc_collection' = IF search = 0 THEN "None" ELSE "collection"
          /\ out' = Append(out, Line("Sectors found", Fin(search)))
          /\ pc' = "stitch"
          /\ UNCHANGED raised
    /\ UNCHANGED <<script, search, best_period, lc_folded, depth_ppm, noise_ppm, n_points, snr_final, detectOthers>>

\* lc_combined = lc_collection.stitch().remove_nans().remove_outliers(sigma=5).flatten(...)
\* (None has no stitch: AttributeError inside the try block)
DetectStitch ==
    /\ script = "detect" /\ pc = "stitch"
    /\ \/ /\ Raise("stitch")
          /\ raised' = "stitch"
          /\ out' = out \o <<Text("Processing"), Text("CRITICAL ERROR")>>
          /\ pc' = "exited"
       \/ /\ lc_collection = "collection"
          /\ Stage("stitch")
          /\ out' = out \o <<Text("Processing"), Text("Data ready")>>
          /\ pc' = "bls"
          /\ UNCHANGED raised
    /\ UNCHANGED <<script, search, lc_collection, best_period, lc_folded, depth_ppm, noise_ppm, n_points, snr_final, detectOthers>>

\* bls = lc_combined.to_periodogram(...); best_period = bls.period_at_max_power.value
DetectBLS ==
    /\ script = "detect" /\ pc = "bls"
    /\ Stage("bls")
    /\ \E p \in PeriodGrid : best_period' = p
    /\ out' = Append(out, Line("Detected Period", Fin(best_period')))
    /\ pc' = "snr"
    /\ UNCHANGED <<script, raised, search, lc_collection, lc_folded, depth_ppm, noise_ppm, n_points, snr_final, detectOthers>>

\* lc_folded = lc_combined.fold(...); masks; depth_ppm; noise_ppm; n_points; snr_final
DetectSNR ==
    /\ script = "detect" /\ pc = "snr"
    /\ Stage("snr")
    /\ \E f \in FoldedCurves : lc_folded' = f
    /\ LET flux_in == FluxIn(lc_folded', best_period)
           flux_out == FluxOut(lc_folded', best_period)
       IN /\ depth_ppm' = DepthPpm(flux_in, flux_out)
          /\ noise_ppm' = NoisePpm(flux_out)
          /\ n_points' = Len(flux_in)
    /\ snr_final' = SnrFinal(depth_ppm', noise_ppm', n_points')
    /\ pc' = "plot"
    /\ UNCHANGED <<script, out, raised, search, lc_collection, best_period, detectOthers>>

\* section 5: the two folded plots
DetectPlot ==
    /\ script = "detect" /\ pc = "plot"
    /\ Stage("plot")
    /\ pc' = "report"
    /\ UNCHANGED <<script, out, raised, detectVars, detectOthers>>

\* a verdict whose robust branch is taken from 7.1 on
C11_RobustFromLimit(snr, depth) ==
    IF FGt(snr, Fin(SNR_ROBUST - 1))
    THEN <<Text("Robust detection confirmed")>>
         \o (IF IsFin(depth) /\ Abs(depth.v) < DEPTH_NOTE
             THEN <<Text("compatible with Earth/Super-Earth")>> ELSE <<>>)
    ELSE <<Text("Low SNR")>>

\* the verdict of the interpretation block
DetectVerdict(snr, depth) ==
    IF FGt(snr, Fin(SNR_ROBUST))
    THEN <<Text("Robust detection confirmed")>>
         \o (IF IsFin(depth) /\ Abs(depth.v) < DEPTH_NOTE
             THEN <<Text("compatible with Earth/Super-Earth")>> ELSE <<>>)
    ELSE <<Text("Low SNR")>>

\* section 6: the final report
DetectReport ==
    /\ script = "detect" /\ pc = "report"
    /\ Stage("report")
    /\ out' = out \o <<Line("Measured Depth", depth_ppm), Line("Background Noise", noise_ppm),
                       Line("SNR", snr_final)>>
                  \o DetectVerdict(snr_final, depth_ppm)
    /\ pc' = "done"
    /\ UNCHANGED <<script, raised, detectVars, detectOthers>>

Detect ==
    \/ DetectSearchSPOC \/ DetectSearchTessSPOC \/ DetectSearchQLP
    \/ DetectDownload \/ DetectStitch \/ DetectBLS \/ DetectSNR
    \/ DetectPlot \/ DetectReport

---------------------------------------------------------------------------
(* BLS_validation__864.01.py: the detection written a second time.  Same    *)
(* units as 01_detection_BLS.py.                                            *)

\* DURATION_HOURS_HINT = 1.0, in hours
BLS_DURATION_HOURS_HINT == 1

\* the SNR threshold 7.1, in tenths
BLS_SNR_ROBUST == 71

\* the depth threshold of the advisory note, 500 ppm, in tenths of a ppm
BLS_DEPTH_NOTE == 5000

\* the period grid of the BLS search, PERIOD_HINT -+ 0.01 (thousandths of a day)
BlsPeriodGrid == {513, 523, 533}

\* duration_phase = (BLS_DURATION_HOURS_HINT / 24) / best_period, in millionths
BlsDurationPhase(period) == (((BLS_DURATION_HOURS_HINT * 1000000) \div 24) * 1000) \div period

\* mask_transit: |phase| < duration_phase * 0.5 (both sides in millionths, doubled)
BlsMaskTransit(ph, period) == 2 * (Abs(ph) * 1000) < BlsDurationPhase(period)

\* mask_out: |phase| > duration_phase * 2.0 (both sides in millionths)
BlsMaskOut(ph, period) == Abs(ph) * 1000 > 2 * BlsDurationPhase(period)

BlsFluxIn(lcv, period) ==
    Select(FluxOf(lcv), [i \in 1..Len(lcv) |-> BlsMaskTransit(lcv[i].phase, period)])

BlsFluxOut(lcv, period) ==
    Select(FluxOf(lcv), [i \in 1..Len(lcv) |-> BlsMaskOut(lcv[i].phase, period)])

\* depth_ppm = (nanmedian(flux_out) - nanmedian(flux_in)) * 1e6
BlsDepthPpm(flux_in, flux_out) == FScale(FSub(Median(flux_out), Median(flux_in)), TenthPpmPerFlux)

\* noise_ppm = nanstd(flux_out) * 1e6
BlsNoisePpm(flux_out) == Std(flux_out)

\* snr_final = (depth_ppm / noise_ppm) * sqrt(n_points)
BlsSnrFinal(depth, noise, n) == FMulSqrt(FDiv(depth, noise, 1000), n)

\* the except branch of the try block: print the error and exit()
BlsFail(stage) ==
    /\ Raise(stage)
    /\ raised' = stage
    /\ out' = Append(out, Text("CRITICAL ERROR"))
    /\ pc' = "exited"

\* search = lk.search_lightcurve(TIC_ID, author="SPOC", exptime=120)
BlsSearchSPOC ==
    /\ script = "bls_validation" /\ pc = "start"
    /\ \/ BlsFail("search_SPOC") /\ UNCHANGED <<search, lc_collection>>
       \/ \E n \in 0..MaxSearch :
             /\ Stage("search_SPOC")
             /\ search' = n
             /\ pc' = IF n = 0 THEN "search_TESS_SPOC" ELSE "download"
             /\ UNCHANGED <<out, raised, lc_collection>>
    /\ UNCHANGED <<script, best_period, lc_folded, depth_ppm, noise_ppm, n_points, snr_final, detectOthers>>

\* if len(search) == 0: search = lk.search_lightcurve(TIC_ID, author="TESS-SPOC")
BlsSearchTessSPOC ==
    /\ script = "bls_validation" /\ pc = "search_TESS_SPOC"
    /\ \/ BlsFail("search_TESS_SPOC") /\ UNCHANGED <<search, lc_collection>>
       \/ \E n \in 0..MaxSearch :
             /\ Stage("search_TESS_SPOC")
             /\ search' = n
             /\ pc' = IF n = 0 THEN "search_QLP" ELSE "download"
             /\ UNCHANGED <<out, raised, lc_collection>>
    /\ UNCHANGED <<script, best_period, lc_folded, depth_ppm, noise_ppm, n_points, snr_final, detectOthers>>

\* if len(search) == 0: print(...); search = lk.search_lightcurve(TIC_ID, author="QLP")
BlsSearchQLP ==
    /\ script = "bls_validation" /\ pc = "search_QLP"
    /\ \/ /\ Raise("search_QLP")
          /\ raised' = "search_QLP"
          /\ out' = out \o <<Text("High cadence data not found"), Text("CRITICAL ERROR")>>
          /\ pc' = "exited"
          /\ UNCHANGED <<search, lc_collection>>
       \/ \E n \in 0..MaxSearch :
             /\ Stage("search_QLP")
             /\ search' = n
             /\ out' = Append(out, Text("High cadence data not found"))
             /\ pc' = "download"
             /\ UNCHANGED <<raised, lc_collection>>
    /\ UNCHANGED <<script, best_period, lc_folded, depth_ppm, noise_ppm, n_points, snr_final, detectOthers>>

\* print(Sectors found); lc_collection = search.download_all()
\* (download_all of an empty search result returns None)
BlsDownload ==
    /\ script = "bls_validation" /\ pc = "download"
    /\ \/ /\ Raise("download_all")
          /\ raised' = "download_all"
          /\ out' = out \o <<Line("Sectors found", Fin(search)), Text("CRITICAL ERROR")>>
          /\ pc' = "exited"
          /\ UNCHANGED lc_collection
       \/ /\ Stage("download_all")
          /\ lc_collection' = IF search = 0 THEN "None" ELSE "collection"
          /\ out' = Append(out, Line("Sectors found", Fin(search)))
          /\ pc' = "stitch"
          /\ UNCHANGED raised
    /\ UNCHANGED <<script, search, best_period, lc_folded, depth_ppm, noise_ppm, n_points, snr_final, detectOthers>>

\* lc_combined = lc_collection.stitch().remove_nans().remove_outliers(sigma=5).flatten(...)
\* (None has no stitch: AttributeError inside the try block)
BlsStitch ==
    /\ script = "bls_validation" /\ pc = "stitch"
    /\ \/ /\ Raise("stitch")
          /\ raised' = "stitch"
          /\ out' = out \o <<Text("Processing"), Text("CRITICAL ERROR")>>
          /\ pc' = "exited"
       \/ /\ lc_collection = "collection"
          /\ Stage("stitch")
          /\ out' = out \o <<Text("Processing"), Text("Data ready")>>
          /\ pc' = "bls"
          /\ UNCHANGED raised
    /\ UNCHANGED <<script, search, lc_collection, best_period, lc_folded, depth_ppm, noise_ppm, n_points, snr_final, detectOthers>>

\* bls = lc_combined.to_periodogram(...); best_period = bls.period_at_max_power.value
BlsBLS ==
    /\ script = "bls_validation" /\ pc = "bls"
    /\ Stage("bls")
    /\ \E p \in BlsPeriodGrid : best_period' = p
    /\ out' = Append(out, Line("Period I detected", Fin(best_period')))
    /\ pc' = "snr"
    /\ UNCHANGED <<script, raised, search, lc_collection, lc_folded, depth_ppm, noise_ppm, n_points, snr_final, detectOthers>>

\* lc_folded = lc_combined.fold(...); masks; depth_ppm; noise_ppm; n_points; snr_final
BlsSNR ==
    /\ script = "bls_validation" /\ pc = "snr"
    /\ Stage("snr")
    /\ \E f \in FoldedCurves : lc_folded' = f
    /\ LET flux_in == BlsFluxIn(lc_folded', best_period)
           flux_out == BlsFluxOut(lc_folded', best_period)
       IN /\ depth_ppm' = BlsDepthPpm(flux_in, flux_out)
          /\ noise_ppm' = BlsNoisePpm(flux_out)
          /\ n_points' = Len(flux_in)
    /\ snr_final' = BlsSnrFinal(depth_ppm', noise_ppm', n_points')
    /\ pc' = "plot"
    /\ UNCHANGED <<script, out, raised, search, lc_collection, best_period, detectOthers>>

\* section 5: the two folded plots
BlsPlot ==
    /\ script = "bls_validation" /\ pc = "plot"
    /\ Stage("plot")
    /\ pc' = "report"
    /\ UNCHANGED <<script, out, raised, detectVars, detectOthers>>

\* the verdict of the interpretation block
BlsVerdict(snr, depth) ==
    IF FGt(snr, Fin(BLS_SNR_ROBUST))
    THEN <<Text("I confirm a robust detection")>>
         \o (IF IsFin(depth) /\ Abs(depth.v) < BLS_DEPTH_NOTE
             THEN <<Text("compatible with an Earth/Super-Earth planet")>> ELSE <<>>)
    ELSE <<Text("Low SNR")>>

\* section 6: the final report
BlsReport ==
    /\ script = "bls_validation" /\ pc = "report"
    /\ Stage("report")
    /\ out' = out \o <<Line("True Depth Measured", depth_ppm), Line("Background Noise", noise_ppm),
                       Line("SNR", snr_final)>>
                  \o BlsVerdict(snr_final, depth_ppm) \o <<Text("Phase 0.5 Check")>>
    /\ pc' = "done"
    /\ UNCHANGED <<script, raised, detectVars, detectOthers>>

Bls ==
    \/ BlsSearchSPOC \/ BlsSearchTessSPOC \/ BlsSearchQLP
    \/ BlsDownload \/ BlsStitch \/ BlsBLS \/ BlsSNR
    \/ BlsPlot \/ BlsReport

---------------------------------------------------------------------------
(* 06_planet_parameters.py and caracterization_864.01.py: the planetary     *)
(* parameters.  Stellar radius and mass are in thousandths of the solar     *)
(* value, temperatures of the star in K, the planet radius in thousandths   *)
(* of an Earth radius, a_au in units of 1e-5 AU, the planet temperatures    *)
(* in hundredths of a degree.                                               *)

\* PERIOD_DAYS = 0.520667, in millionths of a day
PERIOD_DAYS == 520667

\* DEPTH_PPM = 158.0
DEPTH_PPM == 158

\* 1 R_sun = 109.076 R_earth, in thousandths
RSUN_IN_REARTH == 109076

\* 1 AU = 215.032 solar radii, in thousandths
AU_IN_RSUN == 215032

\* the solar defaults: radius 1.0, mass 1.0 (thousandths), Teff 5770 K
DEFAULT_RADIUS == 1000
DEFAULT_MASS == 1000
DEFAULT_TEFF == 5770

\* 273.15, in hundredths
KELVIN_OFFSET == 27315

\* the radius bands 1.2, 2.0, 4.0 (thousandths of an Earth radius)
BAND_EARTH == 1200
BAND_SUPER_EARTH == 2000
BAND_SUB_NEPTUNE == 4000

\* the temperature bands 1000 and 100 degrees C (hundredths)
BAND_LAVA == 100000
BAND_OVEN == 10000

\* what the TIC catalog returns for a field: a positive value or NaN (missing)
RadVals == {NaN, Fin(399), Fin(876), Fin(1000), Fin(1459), Fin(2918)}
MassVals == {NaN, Fin(380), Fin(1000)}
TeffVals == {NaN, Fin(1000), Fin(3500), Fin(5770)}

CatalogRows == [rad : RadVals, mass : MassVals, Teff : TeffVals]

NoRow == [rad |-> NaN, mass |-> NaN, Teff |-> NaN]

\* a substitution that never takes place
C5_NoDefault(x, d) == x

\* if np.isnan(x): x = d
DefaultIfNaN(x, d) == IF IsNaN(x) THEN Fin(d) ELSE x

\* sqrt(DEPTH_DECIMAL) with DEPTH_DECIMAL = DEPTH_PPM / 1e6, in millionths
SqrtDepthDecimal == ISqrt(DEPTH_PPM * 1000000)

\* the radius without the square root of the depth
C4_RadiusNoSqrt(radius) ==
    IF IsFin(radius)
    THEN Fin((((radius.v * RSUN_IN_REARTH) \div 1000) * DEPTH_PPM) \div 1000000)
    ELSE radius

\* planet_radius_earth = (star_radius * 109.076) * np.sqrt(DEPTH_DECIMAL)
PlanetRadiusEarth(radius) ==
    IF IsFin(radius)
    THEN LET x == (radius.v * RSUN_IN_REARTH) \div 1000
         IN \* (x * SqrtDepthDecimal) \div 1000000, the product taken in two parts
            Fin(((x \div 1000) * SqrtDepthDecimal + ((x % 1000) * SqrtDepthDecimal) \div 1000) \div 1000)
    ELSE radius

\* period_years = PERIOD_DAYS / 365.25, in millionths of a year
PeriodYears == (PERIOD_DAYS * 100) \div 36525

\* a_au = ((period_years**2) * star_mass)**(1/3)
SemiMajorAxis(mass) ==
    IF IsFin(mass) THEN Fin(ICbrt(PeriodYears * PeriodYears * mass.v)) ELSE mass

\* a_rs = a_au * 215.032, in thousandths of a solar radius
ARs(a) == IF IsFin(a) THEN Fin((a.v * AU_IN_RSUN) \div 100000) ELSE a

\* planet_temp_kelvin = star_temp * np.sqrt(star_radius / (2 * a_rs))
PlanetTempKelvin(temp, radius, a_rs) ==
    IF IsNaN(temp) \/ IsNaN(radius) \/ IsNaN(a_rs) THEN NaN
    ELSE LET q == FDiv(FScale(radius, 500), a_rs, 1000)  \* radius / (2 * a_rs), in millionths
         IN IF IsFin(q)
            THEN (IF q.v < 0 THEN NaN ELSE Fin((temp.v * ISqrt(q.v * 100)) \div 100))
            ELSE q

\* planet_temp_celsius = planet_temp_kelvin - 273.15
PlanetTempCelsius(kelvin) == FSub(kelvin, Fin(KELVIN_OFFSET))

\* radius bands that include their upper limits
C12_BandsInclusive(radius) ==
    IF FLt(radius, Fin(BAND_EARTH + 1)) THEN "Type: EARTH"
    ELSE IF FLt(radius, Fin(BAND_SUPER_EARTH + 1)) THEN "Type: SUPER-EARTH"
    ELSE IF FLt(radius, Fin(BAND_SUB_NEPTUNE + 1)) THEN "Type: SUB-NEPTUNE"
    ELSE "Type: GAS GIANT"

\* the radius band of the classification block (first match wins)
RadiusBand(radius) ==
    IF FLt(radius, Fin(BAND_EARTH)) THEN "Type: EARTH"
    ELSE IF FLt(radius, Fin(BAND_SUPER_EARTH)) THEN "Type: SUPER-EARTH"
    ELSE IF FLt(radius, Fin(BAND_SUB_NEPTUNE)) THEN "Type: SUB-NEPTUNE"
    ELSE "Type: GAS GIANT"

\* the print of the stellar parameters after the defaults
StarLines(radius, mass, temp) ==
    <<Line("Star R", radius), Line("Star M", mass), Line("Star Teff", temp)>>

\* a final report whose radius and temperature lines are left out
C16_SheetWithoutNumbers(radius_earth, celsius, kelvin, a) == <<Line("DISTANCE", a)>>

\* the three numeric lines of the final report
SheetLines(radius_earth, celsius, kelvin, a) ==
    <<Line("RADIUS", radius_earth), Line("TEMPERATURE C", celsius),
      Line("TEMPERATURE K", kelvin), Line("DISTANCE", a)>>

\* catalog_data = Catalogs.query_object(...); star_radius, star_mass, star_temp
\* (not inside a try block: a failing query ends the script with a traceback)
PlanetQuery ==
    /\ script = "planet" /\ pc = "start"
    /\ \/ /\ Raise("query_object")
          /\ raised' = "query_object"
          /\ pc' = "crashed"
          /\ UNCHANGED <<catalog_data, star_radius, star_mass, star_temp>>
       \/ /\ Stage("query_object")
          /\ \E row \in CatalogRows : catalog_data' = row
          /\ star_radius' = catalog_data'.rad
          /\ star_mass' = catalog_data'.mass
          /\ star_temp' = catalog_data'.Teff
          /\ pc' = "defaults"
          /\ UNCHANGED raised
    /\ UNCHANGED <<script, out, planetOthers, planet_radius_earth, a_au,
                   planet_temp_kelvin, planet_temp_celsius>>

\* the three isnan substitutions and the print of the stellar parameters
PlanetDefaults ==
    /\ script = "planet" /\ pc = "defaults"
    /\ Stage("defaults")
    /\ star_radius' = DefaultIfNaN(star_radius, DEFAULT_RADIUS)
    /\ star_mass' = DefaultIfNaN(star_mass, DEFAULT_MASS)
    /\ star_temp' = DefaultIfNaN(star_temp, DEFAULT_TEFF)
    /\ out' = out \o StarLines(star_radius', star_mass', star_temp')
    /\ pc' = "compute"
    /\ UNCHANGED <<script, raised, planetOthers, catalog_data, planet_radius_earth, a_au,
                   planet_temp_kelvin, planet_temp_celsius>>

\* section 3: radius, semi-major axis, equilibrium temperature
PlanetCompute ==
    /\ script = "planet" /\ pc = "compute"
    /\ Stage("compute")
    /\ planet_radius_earth' = PlanetRadiusEarth(star_radius)
    /\ a_au' = SemiMajorAxis(star_mass)
    /\ planet_temp_kelvin' = PlanetTempKelvin(star_temp, star_radius, ARs(a_au'))
    /\ planet_temp_celsius' = PlanetTempCelsius(planet_temp_kelvin')
    /\ pc' = "report"
    /\ UNCHANGED <<script, out, raised, planetOthers, catalog_data, star_radius, star_mass, star_temp>>

\* section 4: the parameters sheet and the radius classification
PlanetReport ==
    /\ script = "planet" /\ pc = "report"
    /\ Stage("report")
    /\ out' = out \o SheetLines(planet_radius_earth, planet_temp_celsius, planet_temp_kelvin, a_au)
                  \o <<Text(RadiusBand(planet_radius_earth))>>
    /\ pc' = "done"
    /\ UNCHANGED <<script, raised, planetOthers, planetVars>>

Planet == PlanetQuery \/ PlanetDefaults \/ PlanetCompute \/ PlanetReport

---------------------------------------------------------------------------
(* caracterization_864.01.py: the same derivation, written a second time,   *)
(* with the temperature band added to the report.  Same units.              *)

\* a catalog value kept as it is, NaN included
C23_CharNoDefault(x, d) == x

\* if np.isnan(x): x = d
CharDefaultIfNaN(x, d) == IF IsNaN(x) THEN Fin(d) ELSE x

\* planet_radius_earth = (star_radius * 109.076) * np.sqrt(DEPTH_DECIMAL)
CharPlanetRadiusEarth(radius) ==
    IF IsFin(radius)
    THEN LET x == (radius.v * RSUN_IN_REARTH) \div 1000
         IN \* (x * SqrtDepthDecimal) \div 1000000, the product taken in two parts
            Fin(((x \div 1000) * SqrtDepthDecimal + ((x % 1000) * SqrtDepthDecimal) \div 1000) \div 1000)
    ELSE radius

\* a_au = ((period_years**2) * star_mass)**(1/3)
CharSemiMajorAxis(mass) ==
    IF IsFin(mass) THEN Fin(ICbrt(PeriodYears * PeriodYears * mass.v)) ELSE mass

\* a_rs = a_au * 215.032; planet_temp_kelvin = star_temp * np.sqrt(star_radius / (2 * a_rs))
CharPlanetTempKelvin(temp, radius, a) ==
    IF IsNaN(temp) \/ IsNaN(radius) \/ IsNaN(a) THEN NaN
    ELSE LET a_rs == FDiv(FScale(a, AU_IN_RSUN), Fin(100000), 1)
             q == FDiv(FScale(radius, 500), a_rs, 1000)  \* radius / (2 * a_rs), in millionths
         IN IF IsFin(q)
            THEN (IF q.v < 0 THEN NaN ELSE Fin((temp.v * ISqrt(q.v * 100)) \div 100))
            ELSE q

\* planet_temp_celsius = planet_temp_kelvin - 273.15
CharPlanetTempCelsius(kelvin) == FSub(kelvin, Fin(KELVIN_OFFSET))

\* the radius band of the interpretation block (first match wins)
CharRadiusBand(radius) ==
    IF FLt(radius, Fin(BAND_EARTH)) THEN "Type: EARTH"
    ELSE IF FLt(radius, Fin(BAND_SUPER_EARTH)) THEN "Type: SUPER-EARTH"
    ELSE IF FLt(radius, Fin(BAND_SUB_NEPTUNE)) THEN "Type: SUB-NEPTUNE"
    ELSE "Type: GAS GIANT"

\* the temperature band of the interpretation block (first match wins)
CharTempBand(celsius) ==
    IF FGt(celsius, Fin(BAND_LAVA)) THEN "Environment: LAVA WORLD"
    ELSE IF FGt(celsius, Fin(BAND_OVEN)) THEN "Environment: OVEN"
    ELSE "Environment: TEMPERATE"

\* catalog_data = Catalogs.query_object(...); star_radius, star_mass, star_temp
CharQuery ==
    /\ script = "charact" /\ pc = "start"
    /\ \/ /\ Raise("query_object")
          /\ raised' = "query_object"
          /\ pc' = "crashed"
          /\ UNCHANGED <<catalog_data, star_radius, star_mass, star_temp>>
       \/ /\ Stage("query_object")
          /\ \E row \in CatalogRows : catalog_data' = row
          /\ star_radius' = catalog_data'.rad
          /\ star_mass' = catalog_data'.mass
          /\ star_temp' = catalog_data'.Teff
          /\ pc' = "defaults"
          /\ UNCHANGED raised
    /\ UNCHANGED <<script, out, planetOthers, planet_radius_earth, a_au,
                   planet_temp_kelvin, planet_temp_celsius>>

\* the three isnan substitutions and the print of the stellar parameters
CharDefaults ==
    /\ script = "charact" /\ pc = "defaults"
    /\ Stage("defaults")
    /\ star_radius' = CharDefaultIfNaN(star_radius, DEFAULT_RADIUS)
    /\ star_mass' = CharDefaultIfNaN(star_mass, DEFAULT_MASS)
    /\ star_temp' = CharDefaultIfNaN(star_temp, DEFAULT_TEFF)
    /\ out' = out \o StarLines(star_radius', star_mass', star_temp')
    /\ pc' = "compute"
    /\ UNCHANGED <<script, raised, planetOthers, catalog_data, planet_radius_earth, a_au,
                   planet_temp_kelvin, planet_temp_celsius>>

\* section 3: radius, semi-major axis, equilibrium temperature
CharCompute ==
    /\ script = "charact" /\ pc = "compute"
    /\ Stage("compute")
    /\ planet_radius_earth' = CharPlanetRadiusEarth(star_radius)
    /\ a_au' = CharSemiMajorAxis(star_mass)
    /\ planet_temp_kelvin' = CharPlanetTempKelvin(star_temp, star_radius, a_au')
    /\ planet_temp_celsius' = CharPlanetTempCelsius(planet_temp_kelvin')
    /\ pc' = "report"
    /\ UNCHANGED <<script, out, raised, planetOthers, catalog_data, star_radius, star_mass, star_temp>>

\* section 4: the technical sheet, the radius band and the temperature band
CharReport ==
    /\ script = "charact" /\ pc = "report"
    /\ Stage("report")
    /\ out' = out \o SheetLines(planet_radius_earth, planet_temp_celsius, planet_temp_kelvin, a_au)
                  \o <<Text(CharRadiusBand(planet_radius_earth)),
                       Text(CharTempBand(planet_temp_celsius))>>
    /\ pc' = "done"
    /\ UNCHANGED <<script, raised, planetOthers, planetVars>>

Charact == CharQuery \/ CharDefaults \/ CharCompute \/ CharReport

---------------------------------------------------------------------------
(* 05_sanity_checks.py: the odd-even transit test and the stellar density   *)
(* check.  Times of the light curve are in units of 1e-5 day, the times of  *)
(* the binned folded curves (phases) in thousandths of a day, flux in units *)
(* of 1e-5, depths in units of 1e-5, sigmas in units of 1e-7, diff_sigma in *)
(* hundredths, densities in thousandths of a g/cm^3, ratio in thousandths.  *)

\* PERIOD = 0.52067, in units of 1e-5 day
PERIOD == 52067

\* T0 = 1411.1454, in units of 1e-5 day
T0 == 141114540

\* the transit window 0.02 d and the out-of-transit limit 0.03 d (thousandths)
TRANSIT_WINDOW == 20
OUT_WINDOW == 30

\* the limit of the odd-even verdict, 3 sigma, in hundredths
DIFF_SIGMA_LIMIT == 300

\* times of the samples a stitched light curve can hold: orbits -1, 0, 0 and 1
LcTimes == {T0 - 52067, T0 - 20000, T0 + 26000, T0 + 52567}

\* the stitched light curves: time-sorted, 1 to MaxSamples samples
LightCurves ==
    { [i \in 1..Cardinality(S) |-> [time |-> SortedSeq(S)[i]]]
      : S \in { Q \in SUBSET LcTimes : Cardinality(Q) \in 1..MaxSamples } }

\* times of the bins of a folded, binned curve (thousandths of a day)
BinTimes == {-40, -25, 0, 40}

\* flux values of a bin (units of 1e-5)
BinFlux == {99980, 100000}

\* the binned curves of at most MaxBins bins: time-sorted sequences of [time, flux]
BinnedCurves ==
    UNION { { [i \in 1..Cardinality(B) |-> [time |-> SortedSeq(B)[i], flux |-> f[SortedSeq(B)[i]]]]
              : f \in [B -> BinFlux] }
            : B \in { Q \in SUBSET BinTimes : Cardinality(Q) <= MaxBins } }

\* np.round(x) for x = num / den, den > 0: to the nearest integer, halves to even
RoundHalfEven(num, den) ==
    LET q == num \div den
        r == num - q * den
    IN IF 2 * r < den THEN q
       ELSE IF 2 * r > den THEN q + 1
       ELSE IF q % 2 = 0 THEN q ELSE q + 1

\* orbit_num = np.round((lc.time.value - T0) / PERIOD).astype(int)
OrbitNum(time) == RoundHalfEven(time - T0, PERIOD)

\* mask_even = (orbit_num % 2 == 0); numpy's % has the sign of the divisor
MaskEven(orbit) == orbit % 2 = 0

\* an odd mask written with a remainder that has the sign of the dividend
C9_OddOfTruncatedRemainder(orbit) == orbit > 0 /\ orbit % 2 = 1

\* mask_odd = (orbit_num % 2 != 0)
MaskOdd(orbit) == orbit % 2 # 0

\* transit_mask_ev = (np.abs(bin_even.time.value) < 0.02)
TransitMask(binned) == [i \in 1..Len(binned) |-> Abs(binned[i].time) < TRANSIT_WINDOW]

\* out_mask_ev = (np.abs(bin_even.time.value) > 0.03)
OutMask(binned) == [i \in 1..Len(binned) |-> Abs(binned[i].time) > OUT_WINDOW]

\* the masks the script applies to bin_odd: no mask is computed from bin_odd,
\* lines 77 and 82 index bin_odd with out_mask_ev and transit_mask_ev
OddTransitMask(even, odd) == TransitMask(even)
OddOutMask(even, odd) == OutMask(even)

\* a / sqrt(n) for an integer n >= 0, in the unit of a
FDivSqrt(a, n) ==
    CASE IsNaN(a) -> NaN
      [] IsFin(a) ->
            IF n = 0
            THEN (IF a.v = 0 THEN NaN ELSE IF a.v > 0 THEN PInf ELSE NInf)
            ELSE LET q == (Abs(a.v) * 100) \div ISqrt(n * 10000)
                 IN Fin(IF a.v < 0 THEN -q ELSE q)
      [] OTHER -> a

FAbs(a) == CASE IsFin(a) -> Fin(Abs(a.v)) [] a.k = "ninf" -> PInf [] OTHER -> a

\* depth = np.median(flux[out_mask]) - np.median(flux[transit_mask])
OddEvenDepth(flux, out_mask, transit_mask) ==
    FSub(Median(Select(flux, out_mask)), Median(Select(flux, transit_mask)))

\* sigma = np.std(flux[out_mask]) / np.sqrt(len(flux[transit_mask]))
OddEvenSigma(flux, out_mask, transit_mask) ==
    FDivSqrt(Std(Select(flux, out_mask)), Len(Select(flux, transit_mask)))

\* sigma_diff = np.sqrt(sigma_even**2 + sigma_odd**2)
SigmaDiff(se, so) ==
    CASE IsNaN(se) \/ IsNaN(so) -> NaN
      [] IsFin(se) /\ IsFin(so) -> Fin(ISqrt(se.v * se.v + so.v * so.v))
      [] OTHER -> PInf

\* diff_sigma = np.abs(depth_even - depth_odd) / sigma_diff
DiffSigma(de, do, sd) == FDiv(FAbs(FScale(FSub(de, do), 100)), sd, 100)

\* the verdict of the odd-even test
OddEvenVerdict(ds) ==
    IF FLt(ds, Fin(DIFF_SIGMA_LIMIT)) THEN "Consistent" ELSE "Possible Binary"

\* the except branch of the try block: print the error and exit()
SanityFail(stage) ==
    /\ Raise(stage)
    /\ raised' = stage
    /\ out' = Append(out, Text("Error downloading data"))
    /\ pc' = "exited"

\* search = lk.search_lightcurve(ID, mission="TESS", author="SPOC")
SanitySearchSPOC ==
    /\ script = "sanity" /\ pc = "start"
    /\ \/ SanityFail("search_SPOC") /\ UNCHANGED search
       \/ \E n \in 0..MaxSearch :
             /\ Stage("search_SPOC")
             /\ search' = n
             /\ pc' = IF n = 0 THEN "search_TESS" ELSE "download"
             /\ UNCHANGED <<out, raised>>
    /\ UNCHANGED <<script, lc_collection, best_period, lc_folded, depth_ppm, noise_ppm, n_points,
                   snr_final, sanityVars, sanityOthers>>

\* if len(search) == 0: search = lk.search_lightcurve(ID, mission="TESS")
SanitySearchTESS ==
    /\ script = "sanity" /\ pc = "search_TESS"
    /\ \/ SanityFail("search_TESS") /\ UNCHANGED search
       \/ \E n \in 0..MaxSearch :
             /\ Stage("search_TESS")
             /\ search' = n
             /\ pc' = "download"
             /\ UNCHANGED <<out, raised>>
    /\ UNCHANGED <<script, lc_collection, best_period, lc_folded, depth_ppm, noise_ppm, n_points,
                   snr_final, sanityVars, sanityOthers>>

\* lc = search.download_all().stitch().remove_nans()
\* (download_all of an empty search result returns None, which has no stitch)
SanityDownload ==
    /\ script = "sanity" /\ pc = "download"
    /\ \/ SanityFail("download_all_stitch") /\ UNCHANGED lc
       \/ /\ search > 0
          /\ Stage("download_all_stitch")
          /\ \E c \in LightCurves : lc' = c
          /\ out' = Append(out, Line("Data loaded", Fin(Len(lc'))))
          /\ pc' = "split"
          /\ UNCHANGED raised
    /\ UNCHANGED <<script, detectVars, orbit_num, mask_even, mask_odd, bin_even, bin_odd,
                   depth_even, depth_odd, sigma_even, sigma_odd, diff_sigma, ratio, sanityOthers>>

\* orbit_num, mask_even, mask_odd; the fold and the binning of the two subsets,
\* done by lightkurve, outside any try block: of an empty subset lightkurve
\* either makes an empty binned curve or raises
SanitySplit ==
    /\ script = "sanity" /\ pc = "split"
    /\ orbit_num' = [i \in 1..Len(lc) |-> OrbitNum(lc[i].time)]
    /\ mask_even' = [i \in 1..Len(lc) |-> MaskEven(orbit_num'[i])]
    /\ mask_odd' = [i \in 1..Len(lc) |-> MaskOdd(orbit_num'[i])]
    /\ \/ /\ Select(lc, mask_even') = <<>> \/ Select(lc, mask_odd') = <<>>
          /\ Raise("odd_even_split")
          /\ raised' = "fold_bin"
          /\ pc' = "crashed"
          /\ UNCHANGED <<bin_even, bin_odd>>
       \/ /\ Stage("odd_even_split")
          /\ \E be \in BinnedCurves, bo \in BinnedCurves :
                /\ (be = <<>>) = (Select(lc, mask_even') = <<>>)
                /\ (bo = <<>>) = (Select(lc, mask_odd') = <<>>)
                /\ bin_even' = be
                /\ bin_odd' = bo
          /\ pc' = "depth"
          /\ UNCHANGED raised
    /\ UNCHANGED <<script, out, detectVars, lc, depth_even, depth_odd, sigma_even,
                   sigma_odd, diff_sigma, ratio, sanityOthers>>

\* lines 71-85: the masks, the two depths, the two sigmas and diff_sigma.  A
\* boolean index whose length differs from the indexed array raises IndexError
\* (line 77), outside any try block.
SanityDepth ==
    /\ script = "sanity" /\ pc = "depth"
    /\ depth_even' = OddEvenDepth(FluxOf(bin_even), OutMask(bin_even), TransitMask(bin_even))
    /\ \/ /\ Len(OddOutMask(bin_even, bin_odd)) # Len(bin_odd)
          /\ Raise("odd_even_depth")
          /\ raised' = "IndexError"
          /\ pc' = "crashed"
          /\ UNCHANGED <<depth_odd, sigma_even, sigma_odd, diff_sigma>>
       \/ /\ Len(OddOutMask(bin_even, bin_odd)) = Len(bin_odd)
          /\ Stage("odd_even_depth")
          /\ depth_odd' = OddEvenDepth(FluxOf(bin_odd), OddOutMask(bin_even, bin_odd),
                                       OddTransitMask(bin_even, bin_odd))
          /\ sigma_even' = OddEvenSigma(FluxOf(bin_even), OutMask(bin_even), TransitMask(bin_even))
          /\ sigma_odd' = OddEvenSigma(FluxOf(bin_odd), OddOutMask(bin_even, bin_odd),
                                       OddTransitMask(bin_even, bin_odd))
          /\ diff_sigma' = DiffSigma(depth_even', depth_odd', SigmaDiff(sigma_even', sigma_odd'))
          /\ pc' = "report_odd_even"
          /\ UNCHANGED raised
    /\ UNCHANGED <<script, out, detectVars, lc, orbit_num, mask_even, mask_odd, bin_even, bin_odd,
                   ratio, sanityOthers>>

\* lines 87-94: the two depths, the difference and the verdict
SanityReportOddEven ==
    /\ script = "sanity" /\ pc = "report_odd_even"
    /\ Stage("odd_even_report")
    /\ out' = out \o <<Line("Even Transit Depth", depth_even), Line("Odd Transit Depth", depth_odd),
                       Line("Difference", diff_sigma), Text(OddEvenVerdict(diff_sigma))>>
    /\ pc' = "density"
    /\ UNCHANGED <<script, raised, detectVars, sanityVars, sanityOthers>>

\* R_star_val = 0.399 and M_star_val = 0.380, in thousandths of the solar value
R_STAR_VAL == 399
M_STAR_VAL == 380

\* a_au = 0.0093 AU, in millionths of an AU
A_AU == 9300

\* the solar radius in AU (astropy R_sun), in millionths of an AU
RSUN_IN_AU == 4650

\* the mean solar density M_sun / ((4/3) pi R_sun^3) = 1.410 g/cm^3, in thousandths
SOLAR_DENSITY == 1410

\* 3 pi / G for a period in days, 0.018916 g cm^-3 day^2, in millionths
THREE_PI_OVER_G == 18916

\* the limits of the density verdict, 0.5 and 2.0, in thousandths
RATIO_LOW == 500
RATIO_HIGH == 2000

\* rho_star_cat = (M * M_sun) / ((4/3) * pi * (R * R_sun)**3), in g/cm^3
RhoStarCat(mass, radius) ==
    (mass * SOLAR_DENSITY * 1000) \div ((radius * radius * radius) \div 1000)

\* a_over_r = a_au / (R * R_sun in AU), in thousandths
AOverR(a, radius) == (a * 1000) \div ((radius * RSUN_IN_AU) \div 1000)

\* the transit density with the square of a_over_r in place of its cube
C14_RhoTransitSquare(period, a_over_r) ==
    LET p == period \div 10
        k == (THREE_PI_OVER_G * 100000) \div ((p * p) \div 1000)
        square == (a_over_r * a_over_r) \div 1000
    IN ((k \div 10) * (square \div 10)) \div 10000

\* rho_transit = (3 * pi / (G * P**2)) * (a_over_r)**3, in g/cm^3
RhoTransit(period, a_over_r) ==
    LET p == period \div 10
        k == (THREE_PI_OVER_G * 100000) \div ((p * p) \div 1000)
        cube == (((a_over_r * a_over_r) \div 1000) * a_over_r) \div 1000
    IN ((k \div 10) * (cube \div 10)) \div 10000

\* ratio = rho_transit_val / rho_star_cat_cgs
DensityRatio(rho_transit, rho_cat) == FDiv(Fin(rho_transit), Fin(rho_cat), 1000)

\* the verdict with both limits counted as consistent
C15_VerdictInclusive(r) ==
    IF ~FLt(r, Fin(RATIO_LOW)) /\ ~FGt(r, Fin(RATIO_HIGH)) /\ ~IsNaN(r) THEN "Density consistent"
    ELSE "Density discrepancy"

\* the verdict of the density check
DensityVerdict(r) ==
    IF FLt(Fin(RATIO_LOW), r) /\ FLt(r, Fin(RATIO_HIGH)) THEN "Density consistent"
    ELSE "Density discrepancy"

\* section 3: the two densities, their ratio and the verdict
SanityDensity ==
    /\ script = "sanity" /\ pc = "density"
    /\ Stage("density")
    /\ LET rho_star_cat == RhoStarCat(M_STAR_VAL, R_STAR_VAL)
           rho_transit == RhoTransit(PERIOD, AOverR(A_AU, R_STAR_VAL))
       IN /\ ratio' = DensityRatio(rho_transit, rho_star_cat)
          /\ out' = out \o <<Line("Catalog Density", Fin(rho_star_cat)),
                             Line("Transit-Derived Density", Fin(rho_transit)),
                             Line("Ratio", ratio'), Text(DensityVerdict(ratio'))>>
    /\ pc' = "figure"
    /\ UNCHANGED <<script, raised, detectVars, lc, orbit_num, mask_even, mask_odd, bin_even, bin_odd,
                   depth_even, depth_odd, sigma_even, sigma_odd, diff_sigma, sanityOthers>>

\* the figure of the two binned curves and its savefig
SanityFigure ==
    /\ script = "sanity" /\ pc = "figure"
    /\ Stage("figure")
    /\ out' = Append(out, Text("Figure saved"))
    /\ pc' = "done"
    /\ UNCHANGED <<script, raised, detectVars, sanityVars, sanityOthers>>

Sanity ==
    \/ SanitySearchSPOC \/ SanitySearchTESS \/ SanityDownload
    \/ SanitySplit \/ SanityDepth \/ SanityReportOddEven
    \/ SanityDensity \/ SanityFigure

---------------------------------------------------------------------------
(* The stellar density check of 05_sanity_checks.py as a function of the    *)
(* four numbers the script fixes: M_star_val, R_star_val (thousandths of    *)
(* the solar value), PERIOD (units of 1e-5 day) and a_au (millionths of an  *)
(* AU).                                                                     *)

\* a period in millionths of a year
YearsOf(period) == (period * 1000) \div 36525

\* the semi-major axis of Kepler's third law, a^3 = M * P^2 in solar units
\* (AU, years), in millionths of an AU
KeplerAxis(mass, period) == ICbrt(YearsOf(period) * YearsOf(period) * mass) * 10

\* semi-major axes tried besides the one of Kepler's law (millionths of an AU)
AxisVals == {6000, 7283, 9300, 11557}

\* the inputs of the check: the script's own constants are among them
DensityInputs ==
    { [M |-> m, R |-> r, P |-> p, a |-> a] :
        m \in {M_STAR_VAL, 1000}, r \in {R_STAR_VAL, 1000}, p \in {30000, PERIOD},
        a \in AxisVals \cup {KeplerAxis(m, p) : m \in {M_STAR_VAL, 1000}, p \in {30000, PERIOD}} }

\* what 05_sanity_checks.py fixes
ScriptDensityInput == [M |-> M_STAR_VAL, R |-> R_STAR_VAL, P |-> PERIOD, a |-> A_AU]

\* section 3 of the script on the inputs density_in
DensityCheck ==
    /\ script = "density_check" /\ pc = "start"
    /\ Stage("density")
    /\ LET rho_star_cat == RhoStarCat(density_in.M, density_in.R)
           rho_transit == RhoTransit(density_in.P, AOverR(density_in.a, density_in.R))
       IN /\ ratio' = DensityRatio(rho_transit, rho_star_cat)
          /\ out' = out \o <<Line("Catalog Density", Fin(rho_star_cat)),
                             Line("Transit-Derived Density", Fin(rho_transit)),
                             Line("Ratio", ratio'), Text(DensityVerdict(ratio'))>>
    /\ pc' = "done"
    /\ UNCHANGED <<script, raised, search, lc_collection, best_period, lc_folded, depth_ppm,
                   noise_ppm, n_points, snr_final, lc, orbit_num, mask_even, mask_odd, bin_even,
                   bin_odd, depth_even, depth_odd, sigma_even, sigma_odd, diff_sigma,
                   planetVars, csvVars, julietVars, densityVars, roundTripVars>>

---------------------------------------------------------------------------
(* The unit conversion of the planetary radius, 1 R_sun = 109.076 R_earth,  *)
(* applied to a radius and undone.  Radii are in thousandths of their unit. *)

\* the radii converted (thousandths of a solar radius)
RoundTripRadii == {399, 876, 1000, 1459, 2918}

\* the inverse factor the specification names, 9.731e-4, in units of 1e-7
REARTH_IN_RSUN_SPEC == 9731

\* a conversion that leaves the radius in solar radii
C17_NoConversion(r) == r

\* star_radius * 109.076
SolarToEarthRadii(r) == (r * RSUN_IN_REARTH) \div 1000

\* the inverse of the conversion: a division by 109.076
EarthToSolarRadii(e) == (e * 1000) \div RSUN_IN_REARTH

\* the inverse conversion as the specification words it: times 9.731e-4
EarthToSolarRadiiSpec(e) == ((e \div 10) * REARTH_IN_RSUN_SPEC) \div 1000000

RoundTripConvert ==
    /\ script = "unit_round_trip" /\ pc = "start"
    /\ Stage("to_earth_radii")
    /\ rt_earth' = SolarToEarthRadii(rt_radius)
    /\ pc' = "converted"
    /\ UNCHANGED <<script, out, raised, rt_radius, rt_back, rt_back_spec, detectVars, planetVars,
                   sanityVars, csvVars, julietVars, densityVars>>

RoundTripBack ==
    /\ script = "unit_round_trip" /\ pc = "converted"
    /\ Stage("to_solar_radii")
    /\ rt_back' = EarthToSolarRadii(rt_earth)
    /\ rt_back_spec' = EarthToSolarRadiiSpec(rt_earth)
    /\ pc' = "done"
    /\ UNCHANGED <<script, out, raised, rt_radius, rt_earth, detectVars, planetVars,
                   sanityVars, csvVars, julietVars, densityVars>>

RoundTrip == RoundTripConvert \/ RoundTripBack

---------------------------------------------------------------------------
(* 03extra_generate_folded_csv.py: the per-sector retrieval loop, the       *)
(* stitching, the fold and the binning, and the CSV export.                 *)

\* SECTORS_LIST
SECTORS_LIST == <<4, 5, 6, 27, 31, 32, 33, 37, 64, 67, 87, 94>>

\* the sectors the model runs the loop over: the first NumSectors of the list
Sectors == SubSeq(SECTORS_LIST, 1, NumSectors)

SectorStage(name, sector, exc) == [stage |-> name, sector |-> sector, raised |-> exc]

\* one iteration of the retrieval loop, for the sector at sector_idx.  The
\* body is inside try/except: an exception prints a warning and the loop goes
\* on with the next sector; an empty search or a None download `continue's.
CsvSector ==
    /\ script = "csv" /\ pc = "start"
    /\ sector_idx <= Len(Sectors)
    /\ LET sector == Sectors[sector_idx]
           searched == SectorStage("search", sector, FALSE)
           downloaded == SectorStage("download", sector, FALSE)
       IN \/ \* search_lightcurve raises
             /\ ran' = Append(ran, SectorStage("search", sector, TRUE))
             /\ raised' = "search"
             /\ out' = Append(out, Line("Error processing Sector", Fin(sector)))
             /\ UNCHANGED lc_list
          \/ \* len(search) == 0: continue
             /\ ran' = Append(ran, searched)
             /\ UNCHANGED <<raised, out, lc_list>>
          \/ \* download raises
             /\ ran' = ran \o <<searched, SectorStage("download", sector, TRUE)>>
             /\ raised' = "download"
             /\ out' = Append(out, Line("Error processing Sector", Fin(sector)))
             /\ UNCHANGED lc_list
          \/ \* lc_file is None: continue
             /\ ran' = ran \o <<searched, downloaded>>
             /\ UNCHANGED <<raised, out, lc_list>>
          \/ \* the cleaning raises
             /\ ran' = ran \o <<searched, downloaded, SectorStage("clean", sector, TRUE)>>
             /\ raised' = "clean"
             /\ out' = Append(out, Line("Error processing Sector", Fin(sector)))
             /\ UNCHANGED lc_list
          \/ \* lc_list.append(lc_clean)
             /\ ran' = ran \o <<searched, downloaded, SectorStage("clean", sector, FALSE)>>
             /\ lc_list' = Append(lc_list, sector)
             /\ out' = Append(out, Line("Sector added", Fin(sector)))
             /\ UNCHANGED raised
    /\ sector_idx' = sector_idx + 1
    /\ UNCHANGED <<script, pc, csvOthers>>

\* lc_stitched = LightCurveCollection(lc_list).stitch(), outside any try block;
\* stitching an empty collection raises
CsvStitch ==
    /\ script = "csv" /\ pc = "start"
    /\ sector_idx > Len(Sectors)
    /\ \/ /\ Raise("stitch")
          /\ raised' = "stitch"
          /\ out' = Append(out, Text("Stitching"))
          /\ pc' = "crashed"
       \/ /\ lc_list # <<>>
          /\ Stage("stitch")
          /\ out' = Append(out, Text("Stitching"))
          /\ pc' = "fold_bin"
          /\ UNCHANGED raised
    /\ UNCHANGED <<script, sector_idx, lc_list, csvOthers>>

\* section 4: fold, bin, phase to days
CsvFoldBin ==
    /\ script = "csv" /\ pc = "fold_bin"
    /\ Stage("fold_bin")
    /\ out' = Append(out, Text("Folding and binning"))
    /\ pc' = "export"
    /\ UNCHANGED <<script, raised, sector_idx, lc_list, csvOthers>>

\* section 5: df.to_csv and the success message
CsvExport ==
    /\ script = "csv" /\ pc = "export"
    /\ Stage("to_csv")
    /\ out' = Append(out, Text("SUCCESS"))
    /\ pc' = "plot"
    /\ UNCHANGED <<script, raised, sector_idx, lc_list, csvOthers>>

\* section 6: the preview plot
CsvPlot ==
    /\ script = "csv" /\ pc = "plot"
    /\ Stage("plot")
    /\ pc' = "done"
    /\ UNCHANGED <<script, out, raised, sector_idx, lc_list, csvOthers>>

Csv == CsvSector \/ CsvStitch \/ CsvFoldBin \/ CsvExport \/ CsvPlot

---------------------------------------------------------------------------
(* 04_juliet_model_comparison.py: cleanup of old result folders, retrieval, *)
(* the planet fit, the binary fit and the verdict.  Log-evidences and delta *)
(* are in tenths.                                                           *)

\* P_PERIOD = 0.52067 (units of 1e-5 day)
P_PERIOD == 52067

\* a prior: {'distribution': ..., 'hyperparameters': ...}; hyperparameters
\* are a tuple, numbers in thousandths (the period in units of 1e-5 day)
Prior(distribution, hyperparameters) ==
    [distribution |-> distribution, hyperparameters |-> hyperparameters]

\* section 3: the entries assigned to `priors', key by key
PlanetPriors ==
    [ld_law_TESS |-> Prior("fixed", <<"quadratic">>),
     q1_TESS |-> Prior("uniform", <<0, 1000>>),
     q2_TESS |-> Prior("uniform", <<0, 1000>>),
     P_p1 |-> Prior("fixed", <<P_PERIOD>>),
     t0_p1 |-> Prior("uniform", <<-50, 50>>),
     a_p1 |-> Prior("uniform", <<1500, 30000>>),
     p_p1 |-> Prior("uniform", <<0, 150>>),
     b_p1 |-> Prior("uniform", <<0, 900>>),
     ecc_p1 |-> Prior("fixed", <<0>>),
     omega_p1 |-> Prior("fixed", <<90000>>),
     dilution_TESS |-> Prior("fixed", <<1000>>),
     mdilution_TESS |-> Prior("fixed", <<0>>),
     mflux_TESS |-> Prior("normal", <<0, 100>>),
     sigma_w_TESS |-> Prior("loguniform", <<100, 10000000>>)]

\* section 4: the entries assigned to `priors_EB' after the copy
BinaryPriors ==
    [ecc_p1 |-> Prior("uniform", <<0, 800>>),
     omega_p1 |-> Prior("uniform", <<-180000, 180000>>),
     b_p1 |-> Prior("uniform", <<0, 1500>>),
     p_p1 |-> Prior("uniform", <<0, 1000>>)]

\* Python objects: a dictionary is a reference (an index of `dicts') to a
\* map from keys to references (indices of `cells') of the nested
\* dictionaries; two names may hold the same reference
EmptyHeap == [dicts |-> <<>>, cells |-> <<>>]

\* the keys of the priors, in the order section 3 assigns them
PriorKeys ==
    <<"ld_law_TESS", "q1_TESS", "q2_TESS", "P_p1", "t0_p1", "a_p1", "p_p1", "b_p1", "ecc_p1",
      "omega_p1", "dilution_TESS", "mdilution_TESS", "mflux_TESS", "sigma_w_TESS">>

\* the keys of `values' in that order, and the position of a key among them
KeysOf(values) == SelectSeq(PriorKeys, LAMBDA k : k \in DOMAIN values)
KeyIndex(values, k) == CHOOSE i \in 1..Len(KeysOf(values)) : KeysOf(values)[i] = k

\* d = {}; d[k] = {...} for every key of `values': a new dictionary whose
\* entries are new nested dictionaries
NewDict(h, values) ==
    LET n == Len(h.cells)
        ks == KeysOf(values)
    IN [heap |-> [dicts |-> Append(h.dicts, [k \in DOMAIN values |-> n + KeyIndex(values, k)]),
                  cells |-> h.cells \o [i \in 1..Len(ks) |-> values[ks[i]]]],
        ref |-> Len(h.dicts) + 1]

\* the contents of dictionary d, nested dictionaries included
DictValue(h, d) == [k \in DOMAIN h.dicts[d] |-> h.cells[h.dicts[d][k]]]

\* a copy that shares the dictionary: priors_EB = priors
C20_Alias(h, d) == [heap |-> h, ref |-> d]

\* copy.deepcopy(d): a new dictionary with new nested dictionaries of equal contents
DeepCopy(h, d) == NewDict(h, DictValue(h, d))

\* d[k] = {...} for every key of `values': each key of d is bound to a new
\* nested dictionary, the other keys keep theirs
SetItems(h, d, values) ==
    LET n == Len(h.cells)
        ks == KeysOf(values)
        old == h.dicts[d]
    IN [dicts |-> [h.dicts EXCEPT ![d] =
                      [k \in DOMAIN old \cup DOMAIN values |->
                          IF k \in DOMAIN values THEN n + KeyIndex(values, k) ELSE old[k]]],
        cells |-> h.cells \o [i \in 1..Len(ks) |-> values[ks[i]]]]

\* folders_to_clean
ResultFolders == {"results_planet_full", "results_binary_full"}

\* log-evidences a fit can return (tenths)
LnZVals == {0, 50, 101}

\* the limit of the verdict, |delta| = 5, in tenths
DELTA_LIMIT == 50

\* the cleanup loop: rmtree of each existing folder; an rmtree that raises is
\* reported with a warning and its folder is left behind
JulietCleanup ==
    /\ script = "juliet" /\ pc = "start"
    /\ Stage("cleanup")
    /\ \E kept \in SUBSET folders :
          /\ folders' = kept
          /\ out' = out \o [i \in 1..Cardinality(folders \ kept) |-> Text("Deleted old folder")]
                        \o [i \in 1..Cardinality(kept) |-> Text("WARNING: Could not delete")]
    /\ pc' = "search_SPOC"
    /\ UNCHANGED <<script, raised, search, lnZ_P, lnZ_EB, delta, julietOthers, priorVars>>

\* the except branch of the try block: print the error and sys.exit(1)
JulietFail(stage) ==
    /\ Raise(stage)
    /\ raised' = stage
    /\ out' = Append(out, Text("ERROR downloading/processing data"))
    /\ pc' = "exited"

\* search_result = lk.search_lightcurve(ID, mission="TESS", author="SPOC")
JulietSearchSPOC ==
    /\ script = "juliet" /\ pc = "search_SPOC"
    /\ \/ JulietFail("search_SPOC") /\ UNCHANGED search
       \/ \E n \in 0..MaxSearch :
             /\ Stage("search_SPOC")
             /\ search' = n
             /\ pc' = IF n = 0 THEN "search_TESS" ELSE "download"
             /\ UNCHANGED <<out, raised>>
    /\ UNCHANGED <<script, folders, lnZ_P, lnZ_EB, delta, julietOthers, priorVars>>

\* if len(search_result) == 0: search_result = lk.search_lightcurve(ID, mission="TESS")
JulietSearchTESS ==
    /\ script = "juliet" /\ pc = "search_TESS"
    /\ \/ JulietFail("search_TESS") /\ UNCHANGED search
       \/ \E n \in 0..MaxSearch :
             /\ Stage("search_TESS")
             /\ search' = n
             /\ pc' = "download"
             /\ UNCHANGED <<out, raised>>
    /\ UNCHANGED <<script, folders, lnZ_P, lnZ_EB, delta, julietOthers, priorVars>>

\* lc_raw = search_result.download_all().stitch().remove_nans(), fold, bin
\* (download_all of an empty search result returns None, which has no stitch)
JulietDownload ==
    /\ script = "juliet" /\ pc = "download"
    /\ \/ /\ Raise("download_all_stitch")
          /\ raised' = "download_all_stitch"
          /\ out' = out \o <<Line("Found files", Fin(search)), Text("ERROR downloading/processing data")>>
          /\ pc' = "exited"
       \/ /\ search > 0
          /\ Stage("download_all_stitch")
          /\ out' = out \o <<Line("Found files", Fin(search)), Text("Data processed successfully")>>
          /\ pc' = "fit_planet"
          /\ UNCHANGED raised
    /\ UNCHANGED <<script, search, folders, lnZ_P, lnZ_EB, delta, julietOthers, priorVars>>

\* sections 3: the planet priors, juliet.load(out_folder='results_planet_full'), fit
JulietFitPlanet ==
    /\ script = "juliet" /\ pc = "fit_planet"
    /\ Stage("fit_planet")
    /\ LET built == NewDict(heap, PlanetPriors)
       IN /\ heap' = built.heap
          /\ priors' = built.ref
          /\ priors_fitted' = DictValue(built.heap, built.ref)
    /\ folders' = folders \cup {"results_planet_full"}
    /\ \E z \in LnZVals : lnZ_P' = Fin(z)
    /\ pc' = "fit_binary"
    /\ UNCHANGED <<script, out, raised, search, lnZ_EB, delta, priors_EB, julietOthers>>

\* section 4: the binary priors, juliet.load(out_folder='results_binary_full'), fit
JulietFitBinary ==
    /\ script = "juliet" /\ pc = "fit_binary"
    /\ Stage("fit_binary")
    /\ LET copied == DeepCopy(heap, priors)
       IN /\ heap' = SetItems(copied.heap, copied.ref, BinaryPriors)
          /\ priors_EB' = copied.ref
    /\ folders' = folders \cup {"results_binary_full"}
    /\ \E z \in LnZVals : lnZ_EB' = Fin(z)
    /\ pc' = "verdict"
    /\ UNCHANGED <<script, out, raised, search, lnZ_P, delta, priors, priors_fitted, julietOthers>>

\* the verdict of the final comparison
JulietVerdictText(d) ==
    IF FGt(d, Fin(DELTA_LIMIT)) THEN "Strong evidence for PLANET"
    ELSE IF FLt(d, Fin(-DELTA_LIMIT)) THEN "Strong evidence for ECLIPSING BINARY"
    ELSE "Inconclusive"

\* section 5: delta = lnZ_P - lnZ_EB, the three evidences and the verdict
JulietVerdict ==
    /\ script = "juliet" /\ pc = "verdict"
    /\ Stage("verdict")
    /\ delta' = FSub(lnZ_P, lnZ_EB)
    /\ out' = out \o <<Line("Planet Evidence", lnZ_P), Line("Binary Evidence", lnZ_EB),
                       Line("DELTA lnZ", delta'), Text(JulietVerdictText(delta'))>>
    /\ pc' = "done"
    /\ UNCHANGED <<script, raised, search, folders, lnZ_P, lnZ_EB, julietOthers, priorVars>>

Juliet ==
    \/ JulietCleanup \/ JulietSearchSPOC \/ JulietSearchTESS \/ JulietDownload
    \/ JulietFitPlanet \/ JulietFitBinary \/ JulietVerdict

---------------------------------------------------------------------------
(* 02_centroid_test.py: the whole analysis is inside one try block whose    *)
(* except branch prints the error; nothing follows the try block.           *)

\* the except branch: print the error; the script then ends
CentroidFail(stage) ==
    /\ Raise(stage)
    /\ raised' = stage
    /\ out' = Append(out, Text("Error during analysis"))
    /\ pc' = "done"

\* tpf = lk.search_targetpixelfile(TIC_ID, author="SPOC", sector=27).download()
\* and the exit() when tpf is None
CentroidDownload ==
    /\ script = "centroid" /\ pc = "start"
    /\ \/ CentroidFail("download_tpf")
       \/ /\ Stage("download_tpf")
          /\ out' = Append(out, Text("Could not download TPF. Exiting."))
          /\ pc' = "exited"
          /\ UNCHANGED raised
       \/ /\ Stage("download_tpf")
          /\ out' = Append(out, Text("Calculating center of light"))
          /\ pc' = "centroids"
          /\ UNCHANGED raised
    /\ UNCHANGED <<script, centroidOthers>>

\* the light curve, estimate_centroids and the two folds
CentroidCompute ==
    /\ script = "centroid" /\ pc = "centroids"
    /\ \/ CentroidFail("estimate_centroids")
       \/ /\ Stage("estimate_centroids")
          /\ pc' = "plot"
          /\ UNCHANGED <<out, raised>>
    /\ UNCHANGED <<script, centroidOthers>>

\* the two graphs and the interpretation
CentroidPlot ==
    /\ script = "centroid" /\ pc = "plot"
    /\ Stage("plot")
    /\ out' = Append(out, Text("RESULT INTERPRETATION"))
    /\ pc' = "done"
    /\ UNCHANGED <<script, raised, centroidOthers>>

Centroid == CentroidDownload \/ CentroidCompute \/ CentroidPlot

---------------------------------------------------------------------------
(* 01extra_folded_super_transit.py: no try block at all.                    *)

\* search = lk.search_lightcurve(TIC_ID, mission="TESS", author="SPOC")
SuperSearch ==
    /\ script = "super_transit" /\ pc = "start"
    /\ \/ /\ Raise("search_SPOC")
          /\ raised' = "search_SPOC"
          /\ pc' = "crashed"
          /\ UNCHANGED search
       \/ \E n \in 0..MaxSearch :
             /\ Stage("search_SPOC")
             /\ search' = n
             /\ pc' = "download"
             /\ UNCHANGED raised
    /\ out' = Append(out, Text("Downloading data"))
    /\ UNCHANGED <<script, superOthers>>

\* lc = search.download_all().stitch(); download_all of an empty search
\* result returns None, which has no stitch
SuperDownload ==
    /\ script = "super_transit" /\ pc = "download"
    /\ \/ /\ Raise("download_all_stitch")
          /\ raised' = "download_all_stitch"
          /\ pc' = "crashed"
       \/ /\ search > 0
          /\ Stage("download_all_stitch")
          /\ pc' = "fold_bin"
          /\ UNCHANGED raised
    /\ UNCHANGED <<script, out, search, superOthers>>

\* the cleaning, folded_lc and binned_lc
SuperFoldBin ==
    /\ script = "super_transit" /\ pc = "fold_bin"
    /\ Stage("fold_bin")
    /\ out' = out \o <<Text("Folding light curve"), Text("Binning data")>>
    /\ pc' = "plot"
    /\ UNCHANGED <<script, raised, search, superOthers>>

\* the figure and plt.savefig
SuperPlot ==
    /\ script = "super_transit" /\ pc = "plot"
    /\ Stage("plot")
    /\ out' = out \o <<Text("Generating plot"), Text("Success! Image saved")>>
    /\ pc' = "done"
    /\ UNCHANGED <<script, raised, search, superOthers>>

SuperTransit == SuperSearch \/ SuperDownload \/ SuperFoldBin \/ SuperPlot

---------------------------------------------------------------------------

Scripts == {"detect", "bls_validation", "density_check", "unit_round_trip", "planet", "charact", "sanity", "csv", "juliet", "centroid", "super_transit"}

Init ==
    /\ script \in Scripts
    /\ pc = "start"
    /\ out = <<>>
    /\ ran = <<>>
    /\ raised = "none"
    /\ search = 0
    /\ lc_collection = "unset"
    /\ best_period = 0
    /\ lc_folded = <<>>
    /\ depth_ppm = NaN
    /\ noise_ppm = NaN
    /\ n_points = 0
    /\ snr_final = NaN
    /\ catalog_data = NoRow
    /\ star_radius = NaN
    /\ star_mass = NaN
    /\ star_temp = NaN
    /\ planet_radius_earth = NaN
    /\ a_au = NaN
    /\ planet_temp_kelvin = NaN
    /\ planet_temp_celsius = NaN
    /\ lc = <<>>
    /\ orbit_num = <<>>
    /\ mask_even = <<>>
    /\ mask_odd = <<>>
    /\ bin_even = <<>>
    /\ bin_odd = <<>>
    /\ depth_even = NaN
    /\ depth_odd = NaN
    /\ sigma_even = NaN
    /\ sigma_odd = NaN
    /\ diff_sigma = NaN
    /\ ratio = NaN
    /\ sector_idx = 1
    /\ lc_list = <<>>
    /\ folders \in (IF script = "juliet" THEN SUBSET ResultFolders ELSE {{}})
    /\ lnZ_P = NaN
    /\ lnZ_EB = NaN
    /\ delta = NaN
    /\ heap = EmptyHeap /\ priors = 0 /\ priors_EB = 0 /\ priors_fitted = <<>>
    /\ rt_radius \in (IF script = "unit_round_trip" THEN RoundTripRadii ELSE {1000})
    /\ rt_earth = 0 /\ rt_back = 0 /\ rt_back_spec = 0
    /\ density_in \in (IF script = "density_check" THEN DensityInputs ELSE {ScriptDensityInput})

Next == Detect \/ Bls \/ Planet \/ Charact \/ Sanity \/ Csv \/ Juliet \/ Centroid \/ SuperTransit \/ DensityCheck \/ RoundTrip

Spec == Init /\ [][Next]_vars


---------------------------------------------------------------------------
(* The properties checked of the scripts.                                   *)

\* the stage `name' has been run to its end
Ran(name) == \E i \in 1..Len(ran) : ran[i].stage = name /\ ~ran[i].raised

\* the SNR estimator has run on a folded curve one of whose masks is empty
C1_EmptyMask ==
    /\ script = "detect" /\ Ran("snr")
    /\ \/ FluxIn(lc_folded, best_period) = <<>>
       \/ FluxOut(lc_folded, best_period) = <<>>

\* C1: when the in-transit mask or the out-of-transit mask of the SNR
\* estimator selects no sample, the run fails with an error: no depth, noise
\* or SNR value is reported and no SNR classification is printed.
C1_EmptyMaskFails ==
    C1_EmptyMask =>
        /\ raised # "none"
        /\ ~Printed("Measured Depth") /\ ~Printed("Background Noise") /\ ~Printed("SNR")
        /\ ~Printed("Robust detection confirmed") /\ ~Printed("Low SNR")

\* C2: in the odd-even test the depth and the sigma of each subset are those
\* of the windows |phase| < 0.02 and |phase| > 0.03 taken on that subset's own
\* binned phases.
C2_OwnMasks ==
    (script = "sanity" /\ Ran("odd_even_depth")) =>
        /\ depth_even = OddEvenDepth(FluxOf(bin_even), OutMask(bin_even), TransitMask(bin_even))
        /\ sigma_even = OddEvenSigma(FluxOf(bin_even), OutMask(bin_even), TransitMask(bin_even))
        /\ depth_odd = OddEvenDepth(FluxOf(bin_odd), OutMask(bin_odd), TransitMask(bin_odd))
        /\ sigma_odd = OddEvenSigma(FluxOf(bin_odd), OutMask(bin_odd), TransitMask(bin_odd))

\* the two subsets have been folded and binned, and neither the subsets nor
\* their binned curves have the same number of points
C3_UnequalCounts ==
    /\ script = "sanity" /\ Ran("odd_even_split")
    /\ Len(Select(lc, mask_even)) # Len(Select(lc, mask_odd))
    /\ Len(bin_even) # Len(bin_odd)

\* C3: the odd-even test never aborts on subsets of unequal counts, and once
\* its statistics stage has been passed diff_sigma and a verdict exist.
C3_UnequalCountsComplete ==
    C3_UnequalCounts =>
        /\ pc # "crashed"
        /\ Ran("odd_even_report") => (Printed("Consistent") \/ Printed("Possible Binary"))

\* the planet radius has been derived from the catalog radius 0.399 R_sun
\* (DEPTH_PPM is 158)
C4_CatalogStar ==
    /\ script = "planet" /\ Ran("compute")
    /\ star_radius = Fin(399) /\ DEPTH_PPM = 158

\* C4 (as stated): for R_star = 0.399 and depth = 158 ppm the radius is about
\* 1.37 Earth radii and the class reported is Super-Earth.
C4_RadiusSuperEarth ==
    C4_CatalogStar =>
        /\ IsFin(planet_radius_earth) /\ planet_radius_earth.v \in 1360..1380
        /\ pc = "done" => Printed("Type: SUPER-EARTH")

\* C4 (amended): for R_star = 0.399 and depth = 158 ppm the radius is about
\* 0.55 Earth radii and the class reported is the Earth band; 1.37 Earth
\* radii is the radius obtained for the solar default R_star = 1.0.
C4_RadiusEarth ==
    /\ C4_CatalogStar =>
          /\ IsFin(planet_radius_earth) /\ planet_radius_earth.v \in 540..555
          /\ pc = "done" => (Printed("Type: EARTH") /\ ~Printed("Type: SUPER-EARTH"))
    /\ (script = "planet" /\ Ran("compute") /\ star_radius = Fin(DEFAULT_RADIUS)) =>
          /\ IsFin(planet_radius_earth) /\ planet_radius_earth.v \in 1360..1380
          /\ pc = "done" => Printed("Type: SUPER-EARTH")

C4_Witness ==
    /\ C4_CatalogStar /\ pc = "done"
    /\ catalog_data.rad = Fin(399)
    /\ Printed("Type: EARTH")

\* C5: after the defaults every stellar field that the catalog returned as
\* NaN holds its solar default (1.0, 1.0, 5770), every other field is the
\* catalog's; the defaults precede the formulas; and none of the planet
\* radius, the semi-major axis and the equilibrium temperature is NaN.
C5_DefaultsApplied ==
    (script \in {"planet", "charact"}) =>
        /\ Ran("defaults") =>
              /\ star_radius = (IF IsNaN(catalog_data.rad) THEN Fin(1000) ELSE catalog_data.rad)
              /\ star_mass = (IF IsNaN(catalog_data.mass) THEN Fin(1000) ELSE catalog_data.mass)
              /\ star_temp = (IF IsNaN(catalog_data.Teff) THEN Fin(5770) ELSE catalog_data.Teff)
        /\ \A i \in 1..Len(ran) :
              ran[i].stage = "compute" => \E j \in 1..(i - 1) : ran[j].stage = "defaults"
        /\ Ran("compute") =>
              /\ ~IsNaN(planet_radius_earth) /\ ~IsNaN(a_au)
              /\ ~IsNaN(planet_temp_kelvin) /\ ~IsNaN(planet_temp_celsius)

C5_Witness ==
    /\ script \in {"planet", "charact"} /\ pc = "done"
    /\ IsNaN(catalog_data.rad) /\ catalog_data.mass = Fin(380) /\ IsNaN(catalog_data.Teff)
    /\ star_radius = Fin(1000) /\ star_mass = Fin(380) /\ star_temp = Fin(5770)
    /\ planet_radius_earth = Fin(1370)

\* the catalog row in which every missing field holds its solar default
C6_Defaulted(row) ==
    [rad |-> IF IsNaN(row.rad) THEN Fin(DEFAULT_RADIUS) ELSE row.rad,
     mass |-> IF IsNaN(row.mass) THEN Fin(DEFAULT_MASS) ELSE row.mass,
     Teff |-> IF IsNaN(row.Teff) THEN Fin(DEFAULT_TEFF) ELSE row.Teff]

\* everything the script s prints on a run in which the catalog returns the
\* row `row', none of whose fields is missing
C6_OutputOf(s, row) ==
    LET re == IF s = "planet" THEN PlanetRadiusEarth(row.rad) ELSE CharPlanetRadiusEarth(row.rad)
        a == IF s = "planet" THEN SemiMajorAxis(row.mass) ELSE CharSemiMajorAxis(row.mass)
        k == IF s = "planet" THEN PlanetTempKelvin(row.Teff, row.rad, ARs(a))
             ELSE CharPlanetTempKelvin(row.Teff, row.rad, a)
        c == IF s = "planet" THEN PlanetTempCelsius(k) ELSE CharPlanetTempCelsius(k)
    IN StarLines(row.rad, row.mass, row.Teff) \o SheetLines(re, c, k, a)
       \o (IF s = "planet" THEN <<Text(RadiusBand(re))>>
           ELSE <<Text(CharRadiusBand(re)), Text(CharTempBand(c))>>)

\* C6: a run in which a missing stellar field was replaced by its default
\* reports the substitution: what it prints differs from what is printed by
\* the run in which the catalog really returned the default values.
C6_SubstitutionReported ==
    (/\ script \in {"planet", "charact"} /\ pc = "done"
     /\ (IsNaN(catalog_data.rad) \/ IsNaN(catalog_data.mass) \/ IsNaN(catalog_data.Teff))) =>
        out # C6_OutputOf(script, C6_Defaulted(catalog_data))

\* the stages that retrieve data: searches, downloads, stitching, the catalog query
RetrievalStages ==
    {"search", "download", "search_SPOC", "search_TESS_SPOC", "search_QLP", "search_TESS",
     "download_all", "stitch", "download_all_stitch", "download_tpf", "query_object"}

\* C7: in every script a retrieval stage that raises is the last stage of the
\* run, the failure of one sector of the multi-sector loop included: no stage
\* is started after it, the failed retrieval is not started again.
C7_RetrievalFailureFatal ==
    \A i \in 1..Len(ran) :
        (ran[i].raised /\ ran[i].stage \in RetrievalStages) => i = Len(ran)

C9_OrbitPartition ==
    (script = "sanity" /\ orbit_num # <<>>) =>
        /\ Len(orbit_num) = Len(lc) /\ Len(mask_even) = Len(lc) /\ Len(mask_odd) = Len(lc)
        /\ \A i \in 1..Len(lc) :
              /\ Abs(2 * (lc[i].time - T0) - 2 * orbit_num[i] * PERIOD) <= PERIOD
              /\ mask_even[i] # mask_odd[i]
              /\ mask_even[i] = (\E h \in -2..2 : orbit_num[i] = 2 * h)
        /\ \A i, j \in 1..Len(lc) :
              orbit_num[i] = orbit_num[j] =>
                  (mask_even[i] = mask_even[j] /\ mask_odd[i] = mask_odd[j])

C9_Witness ==
    /\ script = "sanity" /\ Len(orbit_num) = 2
    /\ orbit_num[1] = -1 /\ lc[1].time < T0
    /\ mask_odd[1] /\ ~mask_even[1]
    /\ orbit_num[2] = 0 /\ mask_even[2] /\ ~mask_odd[2]

\* C10: when the two subsets have the same depth, diff_sigma is below 1 and
\* the verdict printed is the consistent one, not the possible-binary warning.
C10_IdenticalDepthsConsistent ==
    (/\ script = "sanity" /\ Ran("odd_even_report")
     /\ IsFin(depth_even) /\ depth_even = depth_odd) =>
        /\ FLt(diff_sigma, Fin(100))
        /\ Printed("Consistent") /\ ~Printed("Possible Binary")

\* how many times a line with the tag has been printed
Count(tag) == Cardinality({i \in 1..Len(out) : out[i].tag = tag})

\* the SNR reported is above 7.1 (tenths)
C11_Above == (IsFin(snr_final) /\ snr_final.v > 71) \/ snr_final = PInf

\* C11: a finished detection run has printed exactly one SNR verdict, the
\* robust one exactly when snr > 7.1 and the low-SNR one otherwise (7.1
\* itself included); the Earth/Super-Earth note is printed exactly with the
\* robust verdict and a measured depth below 500 ppm; no verdict is printed
\* before the report.
C11_OneSnrVerdict ==
    /\ (script = "detect") =>
          /\ Count("Robust detection confirmed") + Count("Low SNR") = (IF pc = "done" THEN 1 ELSE 0)
          /\ pc = "done" =>
                /\ Printed("Robust detection confirmed") = C11_Above
                /\ Printed("Low SNR") = ~C11_Above
                /\ Printed("compatible with Earth/Super-Earth") =
                      (C11_Above /\ IsFin(depth_ppm) /\ depth_ppm.v < 5000)
          /\ Count("compatible with Earth/Super-Earth") <= 1
    /\ (script = "bls_validation") =>
          /\ Count("I confirm a robust detection") + Count("Low SNR") = (IF pc = "done" THEN 1 ELSE 0)
          /\ pc = "done" =>
                /\ Printed("I confirm a robust detection") = C11_Above
                /\ Printed("Low SNR") = ~C11_Above
                /\ Printed("compatible with an Earth/Super-Earth planet") =
                      (C11_Above /\ IsFin(depth_ppm) /\ depth_ppm.v < 5000)
          /\ Count("compatible with an Earth/Super-Earth planet") <= 1

C11_Witness ==
    /\ script = "detect" /\ pc = "done"
    /\ snr_final = Fin(71) /\ Printed("Low SNR") /\ ~Printed("Robust detection confirmed")

\* the radius band of a radius (thousandths of an Earth radius), as half-open
\* intervals
C12_BandOf(r) ==
    IF r < 1200 THEN "Type: EARTH"
    ELSE IF r < 2000 THEN "Type: SUPER-EARTH"
    ELSE IF r < 4000 THEN "Type: SUB-NEPTUNE"
    ELSE "Type: GAS GIANT"

C12_Bands == {"Type: EARTH", "Type: SUPER-EARTH", "Type: SUB-NEPTUNE", "Type: GAS GIANT"}

\* C12: a finished run of the planetary derivation has printed exactly one
\* radius band, the one of the half-open interval the radius is in: below 1.2
\* Earth-like, from 1.2 to below 2.0 Super-Earth, from 2.0 to below 4.0
\* Sub-Neptune, from 4.0 on Gas giant; no band is printed before the report.
C12_OneRadiusBand ==
    (script \in {"planet", "charact"}) =>
        /\ pc # "done" => \A b \in C12_Bands : ~Printed(b)
        /\ pc = "done" =>
              /\ IsFin(planet_radius_earth)
              /\ \A b \in C12_Bands :
                    Count(b) = (IF b = C12_BandOf(planet_radius_earth.v) THEN 1 ELSE 0)

C12_Witness ==
    /\ script = "planet" /\ pc = "done"
    /\ planet_radius_earth = Fin(1200)
    /\ Printed("Type: SUPER-EARTH") /\ ~Printed("Type: EARTH")

\* the temperature band of a temperature (hundredths of a degree C)
C13_BandOf(c) ==
    IF c > 100000 THEN "Environment: LAVA WORLD"
    ELSE IF c > 10000 THEN "Environment: OVEN"
    ELSE "Environment: TEMPERATE"

C13_Bands == {"Environment: LAVA WORLD", "Environment: OVEN", "Environment: TEMPERATE"}

\* C13: every finished run of the planetary derivation has printed exactly
\* one temperature band, that of planet_temp_celsius = planet_temp_kelvin -
\* 273.15: above 1000 lava world, else above 100 too hot, else temperate.
C13_OneTemperatureBand ==
    (script \in {"planet", "charact"} /\ pc = "done") =>
        /\ IsFin(planet_temp_celsius) /\ IsFin(planet_temp_kelvin)
        /\ planet_temp_celsius.v = planet_temp_kelvin.v - 27315
        /\ \A b \in C13_Bands :
              Count(b) = (IF b = C13_BandOf(planet_temp_celsius.v) THEN 1 ELSE 0)

\* C14: in the density check, when the semi-major axis is the one Kepler's
\* third law gives for the same mass and period (and a/R* uses the same
\* radius), the transit-derived density equals the catalog density: the
\* ratio is 1, here within one hundredth (the resolution of the fixed-point
\* arithmetic), for every mass, radius and period tried.
C14_SelfConsistent ==
    /\ script = "density_check" /\ pc = "done"
    /\ density_in.a = KeplerAxis(density_in.M, density_in.P)

C14_KeplerRatioIsOne ==
    C14_SelfConsistent => IsFin(ratio) /\ ratio.v >= 990 /\ ratio.v <= 1010

\* a self-consistent run on a star that is not the script's
C14_Witness ==
    /\ C14_SelfConsistent
    /\ density_in.M = 1000 /\ density_in.R = R_STAR_VAL /\ density_in.P = 30000
    /\ Printed("Ratio")

\* C15: a run that completes the density check reports exactly one of the
\* two outcomes: "consistent" when 0.5 < ratio < 2.0, both limits strict,
\* and "discrepancy" for every other ratio, 0.5 and 2.0 themselves included.
C15_DensityRun == script \in {"sanity", "density_check"} /\ pc = "done"

C15_DensityVerdict ==
    C15_DensityRun =>
        /\ IsFin(ratio)
        /\ Count("Density consistent") + Count("Density discrepancy") = 1
        /\ Printed("Density consistent") <=> (500 < ratio.v /\ ratio.v < 2000)

\* a ratio of exactly 0.5 reported as a discrepancy
C15_Witness ==
    /\ C15_DensityRun
    /\ ratio = Fin(500)
    /\ Printed("Density discrepancy")

\* a ratio of exactly 2.0 reported as a discrepancy
C15_WitnessHigh ==
    /\ C15_DensityRun
    /\ ratio = Fin(2000)
    /\ Printed("Density discrepancy")

\* the metric each classification label is derived from, by output tag
C16_MetricOf ==
    [l \in {"Robust detection confirmed", "I confirm a robust detection", "Low SNR"} |-> "SNR"]
    @@ [l \in {"Consistent", "Possible Binary"} |-> "Difference"]
    @@ [l \in {"Density consistent", "Density discrepancy"} |-> "Ratio"]
    @@ [l \in C12_Bands |-> "RADIUS"]
    @@ [l \in C13_Bands |-> "TEMPERATURE C"]
    @@ [l \in {"Strong evidence for PLANET", "Strong evidence for ECLIPSING BINARY",
               "Inconclusive"} |-> "DELTA lnZ"]

\* C16: in every script, each classification label of the output (SNR
\* verdict, odd-even verdict, density verdict, radius band, temperature
\* band, planet-vs-binary verdict) comes after the line that prints the
\* number it was derived from (SNR, diff_sigma, ratio, radius, temperature,
\* delta lnZ): no label is printed without its number printed before it.
C16_NumberBeforeLabel ==
    \A i \in 1..Len(out) :
        out[i].tag \in DOMAIN C16_MetricOf =>
            \E j \in 1..(i - 1) : out[j].tag = C16_MetricOf[out[i].tag]

\* a model comparison that printed its verdict
C16_Witness ==
    /\ script = "juliet" /\ pc = "done"
    /\ \E i \in 1..Len(out) : out[i].tag \in DOMAIN C16_MetricOf
    /\ Printed("DELTA lnZ")

C18_Queries == <<"search_SPOC", "search_TESS_SPOC", "search_QLP">>

C18_Scripts == {"detect", "bls_validation"}

\* all three queries were made and each returned zero results
C18_AllEmpty ==
    /\ script \in C18_Scripts
    /\ Len(ran) >= 3 /\ ran[3].stage = "search_QLP" /\ ~ran[3].raised
    /\ search = 0

\* the queries are the first stages of a run, in the order SPOC, TESS-SPOC,
\* QLP; after three empty results the run gets no further than the download
\* and the stitching, and exits with the critical-error message
C18_Order ==
    script \in C18_Scripts =>
        /\ \A i \in 1..Len(ran) :
              /\ i <= 1 => ran[i].stage = C18_Queries[i]
              /\ (\E k \in 1..3 : ran[i].stage = C18_Queries[k]) =>
                    i <= 3 /\ ran[i].stage = C18_Queries[i]
        /\ C18_AllEmpty =>
              /\ pc \in {"download", "stitch", "exited"}
              /\ ~Ran("stitch") /\ ~Ran("bls") /\ ~Ran("snr") /\ ~Ran("plot") /\ ~Ran("report")
              /\ ~Printed("SNR")
              /\ pc = "exited" => Printed("CRITICAL ERROR")

\* a later source is queried from a state in which the query before it was
\* the last stage, did not raise, and returned zero results
C18_Fallback ==
    (script \in C18_Scripts /\ Len(ran') = Len(ran) + 1) =>
        \A k \in 2..3 :
            ran'[Len(ran')].stage = C18_Queries[k] =>
                /\ Len(ran) = k - 1
                /\ ran[k - 1].stage = C18_Queries[k - 1] /\ ~ran[k - 1].raised
                /\ search = 0

\* C18: the detection scripts query SPOC (120 s), then TESS-SPOC, then QLP;
\* a later source is queried only if every earlier query returned zero
\* results; when all three return zero results the run ends with the
\* critical-error message and the BLS search, the SNR computation and the
\* report are never executed.
C18_SourceFallback == []C18_Order /\ [][C18_Fallback]_vars

\* three empty query results, and the run has exited on the critical error
C18_Witness ==
    /\ C18_AllEmpty /\ script = "detect"
    /\ pc = "exited"
    /\ Printed("CRITICAL ERROR")
    /\ ran[Len(ran)].stage = "stitch" /\ ran[Len(ran)].raised

C19_Verdicts ==
    {"Strong evidence for PLANET", "Strong evidence for ECLIPSING BINARY", "Inconclusive"}

\* C19: the model comparison reports exactly one verdict for delta = lnZ_P -
\* lnZ_EB: the planet model when delta > 5, the eclipsing binary when
\* delta < -5, and "Inconclusive (|Delta| < 5)" exactly when |delta| < 5.
C19_OneVerdict ==
    (script = "juliet" /\ pc = "done") =>
        /\ delta = FSub(lnZ_P, lnZ_EB) /\ IsFin(delta)
        /\ Count("Strong evidence for PLANET") + Count("Strong evidence for ECLIPSING BINARY")
              + Count("Inconclusive") = 1
        /\ Printed("Strong evidence for PLANET") <=> delta.v > 50
        /\ Printed("Strong evidence for ECLIPSING BINARY") <=> delta.v < -50
        /\ Printed("Inconclusive") <=> (delta.v > -50 /\ delta.v < 50)

\* the verdicts of the code: the third one covers |delta| <= 5
C19_VerdictOfCode ==
    (script = "juliet" /\ pc = "done") =>
        /\ delta = FSub(lnZ_P, lnZ_EB) /\ IsFin(delta)
        /\ Count("Strong evidence for PLANET") + Count("Strong evidence for ECLIPSING BINARY")
              + Count("Inconclusive") = 1
        /\ Printed("Strong evidence for PLANET") <=> delta.v > 50
        /\ Printed("Strong evidence for ECLIPSING BINARY") <=> delta.v < -50
        /\ Printed("Inconclusive") <=> (delta.v >= -50 /\ delta.v <= 50)

\* a delta of exactly 5 reported as inconclusive
C19_AtLimit ==
    /\ script = "juliet" /\ pc = "done"
    /\ delta = Fin(50)
    /\ Printed("Inconclusive")

\* the keys section 4 assigns in priors_EB
C20_Relaxed == {"ecc_p1", "omega_p1", "b_p1", "p_p1"}

\* the binary priors have been built
C20_Built == script = "juliet" /\ Ran("fit_binary")

\* C20: building the eclipsing-binary priors leaves the planet priors
\* unchanged: once priors_EB is modified every entry of `priors', nested
\* distribution and hyperparameters included, has the value it had when the
\* planet model was fitted, and priors_EB differs from it only in the keys
\* ecc_p1, omega_p1, b_p1 and p_p1.
C20_PlanetPriorsKept ==
    C20_Built =>
        /\ DictValue(heap, priors) = priors_fitted
        /\ priors_fitted = PlanetPriors
        /\ DOMAIN DictValue(heap, priors_EB) = DOMAIN priors_fitted
        /\ \A k \in DOMAIN priors_fitted :
              DictValue(heap, priors_EB)[k] # DictValue(heap, priors)[k] => k \in C20_Relaxed

\* the binary priors are built and differ from the planet priors in the four keys
C20_Witness ==
    /\ C20_Built
    /\ priors_EB # priors
    /\ \A k \in C20_Relaxed : DictValue(heap, priors_EB)[k] = BinaryPriors[k]
    /\ \A k \in C20_Relaxed : DictValue(heap, priors_EB)[k] # priors_fitted[k]

\* C21: when the planet fit starts, and when the binary fit starts, no
\* results folder of a previous run exists, whatever the deletion attempts
\* of the cleanup did: none of the two folders at the start of the planet
\* fit, and no results_binary_full at the start of the binary fit.
C21_NoOldResults ==
    script = "juliet" =>
        /\ pc = "fit_planet" => folders \cap ResultFolders = {}
        /\ pc = "fit_binary" => "results_binary_full" \notin folders

\* the same, for the runs whose cleanup printed no warning
C21_NoOldResultsWithoutWarning ==
    (script = "juliet" /\ ~Printed("WARNING: Could not delete")) =>
        /\ pc = "fit_planet" => folders \cap ResultFolders = {}
        /\ pc = "fit_binary" => "results_binary_full" \notin folders

\* the binary fit starts with the results_binary_full of a previous run in place
C21_OldBinaryResults ==
    /\ script = "juliet" /\ pc = "fit_binary"
    /\ "results_binary_full" \in folders
    /\ Printed("WARNING: Could not delete")

\* the report of the detection script has been printed
C22_Reported == script = "detect" /\ pc = "done"

\* both masks selected a sample and the measured depth is positive
C22_SoundDepth ==
    /\ FluxIn(lc_folded, best_period) # <<>>
    /\ FluxOut(lc_folded, best_period) # <<>>
    /\ IsFin(depth_ppm) /\ depth_ppm.v > 0

\* C22: the detection script reports a robust detection only if both masks
\* selected at least one sample and the depth is strictly positive; with an
\* empty mask or a non-positive depth the verdict is the low-SNR warning, so
\* the advisory note is printed for the same runs with and without the abs()
\* of its depth < 500 ppm guard.
C22_RobustOnlyIfPositiveDepth ==
    C22_Reported =>
        /\ Printed("Robust detection confirmed") => C22_SoundDepth
        /\ ~C22_SoundDepth => Printed("Low SNR") /\ ~Printed("compatible with Earth/Super-Earth")
        /\ Printed("compatible with Earth/Super-Earth") <=>
              /\ Printed("Robust detection confirmed")
              /\ IsFin(depth_ppm) /\ depth_ppm.v < DEPTH_NOTE

\* a negative depth smaller than 500 ppm in size, reported as low SNR
C22_Witness ==
    /\ C22_Reported
    /\ IsFin(depth_ppm) /\ depth_ppm.v < 0 /\ Abs(depth_ppm.v) < DEPTH_NOTE
    /\ Printed("Low SNR") /\ ~Printed("compatible with Earth/Super-Earth")

\* an empty in-transit mask, reported as low SNR
C22_WitnessEmptyMask ==
    /\ C22_Reported
    /\ FluxIn(lc_folded, best_period) = <<>> /\ IsNaN(depth_ppm)
    /\ Printed("Low SNR")

\* what 06_planet_parameters.py computes and classifies for a catalog row
C23_PlanetOutputs(row) ==
    LET radius == DefaultIfNaN(row.rad, DEFAULT_RADIUS)
        mass == DefaultIfNaN(row.mass, DEFAULT_MASS)
        temp == DefaultIfNaN(row.Teff, DEFAULT_TEFF)
        a == SemiMajorAxis(mass)
        kelvin == PlanetTempKelvin(temp, radius, ARs(a))
    IN [radius |-> PlanetRadiusEarth(radius), a |-> a, kelvin |-> kelvin,
        celsius |-> PlanetTempCelsius(kelvin), band |-> RadiusBand(PlanetRadiusEarth(radius))]

\* what caracterization_864.01.py computes and classifies for a catalog row
C23_CharOutputs(row) ==
    LET radius == CharDefaultIfNaN(row.rad, DEFAULT_RADIUS)
        mass == CharDefaultIfNaN(row.mass, DEFAULT_MASS)
        temp == CharDefaultIfNaN(row.Teff, DEFAULT_TEFF)
        a == CharSemiMajorAxis(mass)
        kelvin == CharPlanetTempKelvin(temp, radius, a)
    IN [radius |-> CharPlanetRadiusEarth(radius), a |-> a, kelvin |-> kelvin,
        celsius |-> CharPlanetTempCelsius(kelvin),
        band |-> CharRadiusBand(CharPlanetRadiusEarth(radius))]

\* a verdict of either detection script, without its wording: robust or not,
\* with the advisory note or not
C23_VerdictKind(lines) == <<lines[1].tag # "Low SNR", Len(lines) = 2>>

\* what 01_detection_BLS.py computes for a folded light curve
C23_DetectOutputs(lcv, period) ==
    LET flux_in == FluxIn(lcv, period)
        flux_out == FluxOut(lcv, period)
        depth == DepthPpm(flux_in, flux_out)
        noise == NoisePpm(flux_out)
        snr == SnrFinal(depth, noise, Len(flux_in))
    IN [depth |-> depth, noise |-> noise, snr |-> snr,
        verdict |-> C23_VerdictKind(DetectVerdict(snr, depth))]

\* what BLS_validation__864.01.py computes for a folded light curve
C23_BlsOutputs(lcv, period) ==
    LET flux_in == BlsFluxIn(lcv, period)
        flux_out == BlsFluxOut(lcv, period)
        depth == BlsDepthPpm(flux_in, flux_out)
        noise == BlsNoisePpm(flux_out)
        snr == BlsSnrFinal(depth, noise, Len(flux_in))
    IN [depth |-> depth, noise |-> noise, snr |-> snr,
        verdict |-> C23_VerdictKind(BlsVerdict(snr, depth))]

\* the verdict printed by the run, without its wording
C23_PrintedVerdict ==
    <<~Printed("Low SNR"),
      Printed("compatible with Earth/Super-Earth")
         \/ Printed("compatible with an Earth/Super-Earth planet")>>

\* C23: the two planetary-parameter scripts agree on their shared outputs:
\* for every catalog row (radius, mass, Teff, each possibly NaN) the radius,
\* the semi-major axis, the temperature in K and in C and the radius band a
\* run of either script produced are those both scripts compute for the row;
\* and the two detection scripts agree on depth_ppm, noise_ppm, SNR and the
\* SNR verdict of every folded light curve.
C23_DuplicatesAgree ==
    /\ (script \in {"planet", "charact"} /\ pc = "done") =>
          LET run == [radius |-> planet_radius_earth, a |-> a_au, kelvin |-> planet_temp_kelvin,
                      celsius |-> planet_temp_celsius,
                      band |-> CHOOSE b \in C12_Bands : Printed(b)]
          IN /\ Cardinality({b \in C12_Bands : Printed(b)}) = 1
             /\ run = C23_PlanetOutputs(catalog_data)
             /\ run = C23_CharOutputs(catalog_data)
    /\ (script \in {"detect", "bls_validation"} /\ pc = "done") =>
          LET run == [depth |-> depth_ppm, noise |-> noise_ppm, snr |-> snr_final,
                      verdict |-> C23_PrintedVerdict]
          IN /\ run = C23_DetectOutputs(lc_folded, best_period)
             /\ run = C23_BlsOutputs(lc_folded, best_period)

\* a run of caracterization_864.01.py on a row without radius
C23_Witness ==
    /\ script = "charact" /\ pc = "done"
    /\ IsNaN(catalog_data.rad)
    /\ planet_radius_earth = C23_PlanetOutputs(catalog_data).radius
    /\ Printed(C23_PlanetOutputs(catalog_data).band)

\* a run of BLS_validation__864.01.py with a robust verdict
C23_WitnessDetection ==
    /\ script = "bls_validation" /\ pc = "done"
    /\ Printed("I confirm a robust detection")
    /\ C23_DetectOutputs(lc_folded, best_period).verdict[1]

=========================================================================
